---- MODULE Spec2Model ----
(***************************************************************************)
(* Call-session coordination of the chat backend.                          *)
(*                                                                         *)
(* Two implementations of call signalling live in the repository and keep  *)
(* their state in disjoint stores:                                         *)
(*   - the REST router backend/routes/calls.js, whose calls are rows of    *)
(*     the SQL table `calls` (database/schema.sql);                        *)
(*   - the socket handler (unnamed/part_009), whose calls are entries of   *)
(*     the in-process map videoCallRooms.                                  *)
(* A call created through one is invisible to the other, so a behaviour    *)
(* of the model runs one of them, chosen by `impl` in Init.                *)
(*                                                                         *)
(* Every `await` of a handler is a point where other handlers run.  A      *)
(* handler is therefore split into one action per stretch of code that     *)
(* runs between two awaits and touches shared state; a single SQL          *)
(* statement is atomic, and the statements of a transaction that follow    *)
(* its first write are merged with that write (the row lock the write      *)
(* takes is held until commit).  Reads of a transaction are not isolated   *)
(* from concurrent commits (PostgreSQL's default READ COMMITTED; the       *)
(* handlers take no row lock with their SELECTs).                          *)
(*                                                                         *)
(* Abstractions.  A 30 s timer, once armed, may run at any later point.    *)
(* A timestamp column is either NULL or SET and its value is kept beside   *)
(* it; the clock `now` moves only in SweepSpec and DurationSpec.  In the    *)
(* socket implementation every user holds one live connection throughout,  *)
(* so an event emitted to a user's room or to a socket is received.        *)
(* `emitted` and `last` are history variables: the events sent so far and  *)
(* the response of the latest handler step.                                *)
(***************************************************************************)
EXTENDS Integers, Sequences, FiniteSets, TLC

\* ------------------------------------------------------------------ bounds
MaxCalls == 2
MaxReq == 2
InitCoins == 8
MaxSockets == 2
MaxTasks == 2
MaxMsgs == 2
MaxClock == 61
MaxInFlight == 2
MaxArmed == 2
MaxSeconds == 13

\* ------------------------------------------------------------------ inputs
Users == {"A", "B", "C"}

\* Bodies of the POST /initiate requests the clients send:
\* <<callerId, recipientId, callType>>.
InitiateRequests ==
  {<<"A", "B", "video">>, <<"C", "B", "voice">>, <<"B", "B", "voice">>}

\* Payloads of the call_user events the clients send:
\* <<socket.userId, recipientId, conversationId>>.
CallUserRequests ==
  {<<"A", "B", "c1">>, <<"C", "B", "c2">>, <<"A", "C", "c2">>, <<"A", "B", "c0">>}

\* ------------------------------------------------------- collaborator data
\* users.is_verified, blocked_users and conversations are written by other
\* routes only; they are fixed here.
Verified == Users
Blocked == {}
Conversations == [c1 |-> {"A", "B"}, c2 |-> {"B", "C"}]
ConversationIds == {"c1", "c2"}
\* The pairs of users with a mutual match.
MutualMatches == {{"A", "B"}}

\* --------------------------------------------------------------- constants
VideoCost == 5
VoiceCost == 3
\* setUserOnline: setCache(key, ..., 3600), seconds.
OnlineTtlSeconds == 3600
\* The sweep of part_009: timeDiff > 5 * 60 * 1000, every 60000 ms.
StaleAfterMs == 5 * 60 * 1000
SweepEveryMs == 60000
\* The clock counts sweep intervals, that is minutes: the time to live of a
\* presence record in ticks of the clock.
OnlineTtl == (OnlineTtlSeconds * 1000) \div SweepEveryMs
\* SocketService: this.maxReconnectAttempts = 5; this.reconnectDelay = 1000.
\* calls.duration is NULL until the call is ended.
NoDuration == -1
\* The clock of DurationSpec counts seconds.
SecondMs == 1000
maxReconnectAttempts == 5
reconnectDelay == 1000
NULL == "NULL"
SET == "SET"
NoUser == "-"

Terminal == {"ended", "declined", "missed"}
Active == {"ringing", "connected"}

VARIABLES
  impl,            \* "rest" or "socket": the implementation this behaviour runs
  calls,           \* REST: the table `calls`, a sequence indexed by call id; *_sec is
                   \* the value of a timestamp column, connected_sec the answered_at of
                   \* the call's first answer, told the duration End reported, charges
                   \* the number of coin_transactions rows that refer to the call
  coins,           \* REST: users.coins
  videoCallRooms,  \* socket: the map callId -> call
  callSeq,         \* socket: number of callIds generated so far
  ioRooms,         \* socket: members of the socket.io room named callId
  timers,          \* ids of the calls whose 30 s timer is armed and has not run
  reqs,            \* handler invocations suspended at an await
  emitted,         \* <<event, receiver, callId, reason>> of every event sent
  last,            \* what the handler step that ran last did
  sockets,         \* the connections accepted so far, indexed by socket id; lastEvent
                   \* is the time of the socket's latest event in SweepSpec
  activeConnections, \* the map userId -> {socketId, rooms, lastSeen}
  online,          \* the presence store: the Redis keys online:<userId>, with their expiry
  conversationRooms, \* backend/utils/socketHandler.js: conversationId -> userIds
  tasks,           \* socket-handler invocations suspended at an await
  wanted,          \* <<socket, conversation>> whose latest authorised join/leave is a join
  delivered,       \* <<event, socket, conversationId, callId>> received in the latest step
  messages,        \* ids of the rows of the table `messages`
  outbox,          \* the messages accepted so far, by id: [socket, user, conv]
  feed,            \* per socket, the ids of the new_message events received, in order
  now,             \* the server's clock: minutes in SweepSpec, seconds in DurationSpec
  client           \* the SocketService of one client application

sessionVars ==
  <<sockets, activeConnections, online, conversationRooms, tasks, wanted, delivered,
    messages, outbox, feed, now, client>>

vars ==
  <<impl, calls, coins, videoCallRooms, callSeq, ioRooms, timers, reqs, emitted, last,
    sessionVars>>

restVars == <<calls, coins, reqs>>
socketVars == <<videoCallRooms, callSeq, ioRooms>>

\* `at` is the time the handler's transaction began.
Idle ==
  [op |-> "idle", user |-> NoUser, peer |-> NoUser, callType |-> "voice", callId |-> 0,
   at |-> 0]

NoOp == [op |-> "none", callId |-> 0, code |-> 0]

\* What a handler step answered: an HTTP status for a REST route; for a
\* socket handler or a timer, which send no response, 1 when it acted and 0
\* when it ignored the event.
Outcome(op, callId, code) == [op |-> op, callId |-> callId, code |-> code]

Ev(ev, to, callId) == <<ev, to, callId, "">>

\* ------------------------------------------------------------- REST router
requiredCoins(callType) == IF callType = "video" THEN VideoCost ELSE VoiceCost

\* NOW() in a statement of a transaction that began at time `began`: the
\* time of the statement, or the time the transaction began when the
\* transaction helper of config/database issues BEGIN.
NOW(began) == {began, now}

\* A double precision number of milliseconds / 1000 assigned to an INTEGER
\* column: PostgreSQL rounds to the nearest integer, a half to the even one.
RoundSeconds(ms) ==
  LET q == ms \div 1000
      r == ms % 1000
  IN IF r < 500 THEN q
     ELSE IF r > 500 THEN q + 1
     ELSE IF q % 2 = 0 THEN q ELSE q + 1

\* duration = EXTRACT(EPOCH FROM (NOW() - COALESCE(answered_at, created_at)))
\* for the row `call`, as the INTEGER column stores it.
Duration(call) ==
  LET since == IF call.answered_at # NULL THEN call.answered_sec ELSE call.created_sec
  IN RoundSeconds((now - since) * SecondMs)

\* actualDuration of POST /:callId/end: Math.floor(call.duration) of the
\* returned integer when call.answered_at and call.duration are truthy.
actualDuration(call) ==
  IF call.answered_at # NULL /\ Duration(call) # 0 THEN Duration(call) ELSE 0

CallIds == 1..Len(calls)

\* SELECT id FROM calls WHERE (caller_id = $1 OR recipient_id = $1 OR
\*   caller_id = $2 OR recipient_id = $2) AND status IN ('ringing','connected')
activeCallResult(callerId, recipientId) ==
  {c \in CallIds :
     /\ \/ calls[c].caller_id \in {callerId, recipientId}
        \/ calls[c].recipient_id \in {callerId, recipientId}
     /\ calls[c].status \in Active}

\* The slot a handler invocation is suspended in at its await: the lowest
\* free one.  MaxReq invocations can be suspended at a time, and MaxCalls
\* calls can be created; a request turned down at once needs neither (it
\* is counted under slot 1).
FreeSlot(r) == reqs[r] = Idle /\ \A q \in 1..(r - 1) : reqs[q] # Idle

PendingInitiates == {r \in 1..MaxReq : reqs[r].op = "initiate"}

\* Status code of the validation part of POST /initiate, 0 when it passes.
InitiateReject(callerId, recipientId, callType) ==
  IF callerId = recipientId THEN 400
  ELSE IF coins[callerId] < requiredCoins(callType) THEN 400
  ELSE IF recipientId \notin Verified THEN 404
  ELSE IF <<callerId, recipientId>> \in Blocked \/ <<recipientId, callerId>> \in Blocked THEN 403
  ELSE IF activeCallResult(callerId, recipientId) # {} THEN 409
  ELSE 0

\* POST /initiate up to and including the active-call SELECT.
InitiateCheck(r, callerId, recipientId, callType) ==
  /\ impl = "rest"
  /\ LET code == InitiateReject(callerId, recipientId, callType) IN
       IF code # 0
       THEN /\ r = 1
            /\ last' = Outcome("initiate", 0, code)
            /\ UNCHANGED reqs
       ELSE /\ FreeSlot(r)
            /\ Len(calls) + Cardinality(PendingInitiates) < MaxCalls
            /\ reqs' = [reqs EXCEPT ![r] =
                 [op |-> "initiate", user |-> callerId, peer |-> recipientId,
                  callType |-> callType, callId |-> 0, at |-> now]]
            /\ last' = Outcome("initiate_check", 0, 0)
  /\ UNCHANGED <<sessionVars, impl, calls, coins, timers, emitted, socketVars>>

\* POST /initiate from the INSERT on: the row, the 201 response, the
\* incoming_call event and the 30 s timer.
InitiateInsert(r) ==
  /\ impl = "rest"
  /\ reqs[r].op = "initiate"
  /\ LET id == Len(calls) + 1 IN
       /\ \E t \in NOW(reqs[r].at) :
            calls' = Append(calls,
              [caller_id |-> reqs[r].user, recipient_id |-> reqs[r].peer,
               call_type |-> reqs[r].callType, status |-> "ringing",
               answered_at |-> NULL, ended_at |-> NULL,
               created_sec |-> t, answered_sec |-> 0, connected_sec |-> 0,
               duration |-> NoDuration, told |-> NoDuration, charges |-> 0])
       /\ emitted' = emitted \cup {Ev("incoming_call", reqs[r].peer, id)}
       /\ timers' = timers \cup {id}
       /\ last' = Outcome("initiate", id, 201)
  /\ reqs' = [reqs EXCEPT ![r] = Idle]
  /\ UNCHANGED <<sessionVars, impl, coins, socketVars>>

\* CallTimeout without `AND status = 'ringing'`.
CallTimeout_Unguarded(c) ==
  /\ impl = "rest"
  /\ c \in timers
  /\ timers' = timers \ {c}
  /\ calls' = [calls EXCEPT ![c].status = "missed", ![c].ended_at = SET]
  /\ emitted' = emitted \cup
       {Ev("call_timeout", calls[c].caller_id, c),
        Ev("call_timeout", calls[c].recipient_id, c)}
  /\ last' = Outcome("timeout", c, 1)
  /\ UNCHANGED <<sessionVars, impl, coins, reqs, socketVars>>

\* CallTimeout that notifies the caller only.
CallTimeout_CallerOnly(c) ==
  /\ impl = "rest"
  /\ c \in timers
  /\ timers' = timers \ {c}
  /\ IF calls[c].status = "ringing"
     THEN /\ calls' = [calls EXCEPT ![c].status = "missed", ![c].ended_at = SET]
          /\ emitted' = emitted \cup {Ev("call_timeout", calls[c].caller_id, c)}
          /\ last' = Outcome("timeout", c, 1)
     ELSE /\ UNCHANGED <<calls, emitted>>
          /\ last' = Outcome("timeout", c, 0)
  /\ UNCHANGED <<sessionVars, impl, coins, reqs, socketVars>>

\* The setTimeout callback of POST /initiate:
\* UPDATE calls SET status = 'missed' WHERE id = $1 AND status = 'ringing'.
CallTimeout(c) ==
  /\ impl = "rest"
  /\ c \in timers
  /\ timers' = timers \ {c}
  /\ IF calls[c].status = "ringing"
     THEN /\ calls' = [calls EXCEPT ![c].status = "missed", ![c].ended_at = SET]
          /\ emitted' = emitted \cup
               {Ev("call_timeout", calls[c].caller_id, c),
                Ev("call_timeout", calls[c].recipient_id, c)}
          /\ last' = Outcome("timeout", c, 1)
     ELSE /\ UNCHANGED <<calls, emitted>>
          /\ last' = Outcome("timeout", c, 0)
  /\ UNCHANGED <<sessionVars, impl, coins, reqs, socketVars>>

\* POST /:callId/answer, the SELECT ... WHERE id = $1 AND recipient_id = $2
\* AND status = 'ringing' and the 404 when it returns no row.
AnswerSelect(r, c, userId) ==
  /\ impl = "rest"
  /\ IF c \in CallIds /\ calls[c].recipient_id = userId /\ calls[c].status = "ringing"
     THEN /\ FreeSlot(r)
          /\ reqs' = [reqs EXCEPT ![r] =
               [op |-> "answer", user |-> userId, peer |-> calls[c].caller_id,
                callType |-> calls[c].call_type, callId |-> c, at |-> now]]
          /\ last' = Outcome("answer_select", c, 0)
     ELSE /\ r = 1
          /\ last' = Outcome("answer", c, 404)
          /\ UNCHANGED reqs
  /\ UNCHANGED <<sessionVars, impl, calls, coins, timers, emitted, socketVars>>

\* POST /:callId/answer from UPDATE calls SET status = 'connected' WHERE
\* id = $1 on: the coin deduction, the 200 response and call_answered.
AnswerUpdate(r) ==
  /\ impl = "rest"
  /\ reqs[r].op = "answer"
  /\ LET c == reqs[r].callId IN
       /\ \E t \in NOW(reqs[r].at) :
            calls' = [calls EXCEPT ![c].status = "connected", ![c].answered_at = SET,
                                   ![c].answered_sec = t,
                                   ![c].connected_sec =
                                     IF calls[c].answered_at = NULL THEN t ELSE @,
                                   ![c].charges = @ + 1]
       /\ coins' = [coins EXCEPT ![reqs[r].peer] = @ - requiredCoins(reqs[r].callType)]
       /\ emitted' = emitted \cup {Ev("call_answered", reqs[r].peer, c)}
       /\ last' = Outcome("answer", c, 200)
  /\ reqs' = [reqs EXCEPT ![r] = Idle]
  /\ UNCHANGED <<sessionVars, impl, timers, socketVars>>

\* POST /:callId/decline: one guarded UPDATE ... RETURNING.
Decline(c, userId) ==
  /\ impl = "rest"
  /\ IF c \in CallIds /\ calls[c].recipient_id = userId /\ calls[c].status = "ringing"
     THEN /\ calls' = [calls EXCEPT ![c].status = "declined", ![c].ended_at = SET]
          /\ emitted' = emitted \cup {Ev("call_declined", calls[c].caller_id, c)}
          /\ last' = Outcome("decline", c, 200)
     ELSE /\ last' = Outcome("decline", c, 404)
          /\ UNCHANGED <<calls, emitted>>
  /\ UNCHANGED <<sessionVars, impl, coins, timers, reqs, socketVars>>

\* End without `AND status IN ('ringing', 'connected')`.
End_Unguarded(c, userId) ==
  /\ impl = "rest"
  /\ IF /\ c \in CallIds
        /\ userId \in {calls[c].caller_id, calls[c].recipient_id}
     THEN /\ calls' = [calls EXCEPT ![c].status = "ended", ![c].ended_at = SET,
                                   ![c].duration = Duration(calls[c]),
                                   ![c].told = actualDuration(calls[c])]
          /\ LET otherUserId == IF calls[c].caller_id = userId
                                THEN calls[c].recipient_id ELSE calls[c].caller_id
             IN emitted' = emitted \cup {Ev("call_ended", otherUserId, c)}
          /\ last' = Outcome("end", c, 200)
     ELSE /\ last' = Outcome("end", c, 404)
          /\ UNCHANGED <<calls, emitted>>
  /\ UNCHANGED <<sessionVars, impl, coins, timers, reqs, socketVars>>

\* POST /:callId/end: one guarded UPDATE ... RETURNING, then call_ended to
\* the other participant.
End(c, userId) ==
  /\ impl = "rest"
  /\ IF /\ c \in CallIds
        /\ userId \in {calls[c].caller_id, calls[c].recipient_id}
        /\ calls[c].status \in Active
     THEN /\ calls' = [calls EXCEPT ![c].status = "ended", ![c].ended_at = SET,
                                   ![c].duration = Duration(calls[c]),
                                   ![c].told = actualDuration(calls[c])]
          /\ LET otherUserId == IF calls[c].caller_id = userId
                                THEN calls[c].recipient_id ELSE calls[c].caller_id
             IN emitted' = emitted \cup {Ev("call_ended", otherUserId, c)}
          /\ last' = Outcome("end", c, 200)
     ELSE /\ last' = Outcome("end", c, 404)
          /\ UNCHANGED <<calls, emitted>>
  /\ UNCHANGED <<sessionVars, impl, coins, timers, reqs, socketVars>>

\* ---------------------------------------------------------- socket handler
NoCalls == [c \in {} |-> 0]

\* videoCallRooms.delete(callId)
Delete(map, c) == [k \in DOMAIN map \ {c} |-> map[k]]

\* videoCallRooms.set(callId, call)
Set(map, c, call) == [k \in DOMAIN map \cup {c} |-> IF k = c THEN call ELSE map[k]]

\* socket.on('call_user'): the conversation lookup, the new map entry, the
\* events incoming_call and call_initiated and the 30 s timer.  Nothing
\* shared is read before the handler's only await, so it is one step.  The
\* callId `call_${Date.now()}_${socket.userId}` is taken to be fresh.
CallUser(userId, recipientId, conversationId) ==
  /\ impl = "socket"
  /\ IF conversationId \notin ConversationIds
     THEN /\ emitted' = emitted \cup {<<"call_error", userId, 0, "Conversation not found">>}
          /\ last' = Outcome("call_user", 0, 0)
          /\ UNCHANGED <<videoCallRooms, callSeq, timers>>
     ELSE IF userId \notin Conversations[conversationId]
     THEN /\ emitted' = emitted \cup {<<"call_error", userId, 0, "Not authorized">>}
          /\ last' = Outcome("call_user", 0, 0)
          /\ UNCHANGED <<videoCallRooms, callSeq, timers>>
     ELSE LET callId == callSeq + 1 IN
          /\ callSeq < MaxCalls
          /\ callSeq' = callId
          /\ videoCallRooms' = Set(videoCallRooms, callId,
               [callerId |-> userId, recipientId |-> recipientId, status |-> "ringing"])
          /\ emitted' = emitted \cup
               {Ev("incoming_call", recipientId, callId), Ev("call_initiated", userId, callId)}
          /\ timers' = timers \cup {callId}
          /\ last' = Outcome("call_user", callId, 1)
  /\ UNCHANGED <<sessionVars, impl, ioRooms, restVars>>

\* The setTimeout callback of call_user ("auto-decline after 30 seconds").
AutoDecline(c) ==
  /\ impl = "socket"
  /\ c \in timers
  /\ timers' = timers \ {c}
  /\ IF c \in DOMAIN videoCallRooms /\ videoCallRooms[c].status = "ringing"
     THEN /\ videoCallRooms' = Delete(videoCallRooms, c)
          /\ emitted' = emitted \cup
               {<<"call_declined", videoCallRooms[c].callerId, c, "timeout">>,
                <<"call_ended", videoCallRooms[c].recipientId, c, "timeout">>}
          /\ last' = Outcome("timeout", c, 1)
     ELSE /\ UNCHANGED <<videoCallRooms, emitted>>
          /\ last' = Outcome("timeout", c, 0)
  /\ UNCHANGED <<sessionVars, impl, callSeq, ioRooms, restVars>>

\* socket.on('answer_call')
AnswerCall(c, userId) ==
  /\ impl = "socket"
  /\ IF c \in DOMAIN videoCallRooms /\ videoCallRooms[c].recipientId = userId
     THEN LET members == ioRooms[c] \cup {userId, videoCallRooms[c].callerId} IN
          /\ videoCallRooms' = [videoCallRooms EXCEPT ![c].status = "active"]
          /\ ioRooms' = [ioRooms EXCEPT ![c] = members]
          /\ emitted' = emitted \cup {Ev("call_answered", u, c) : u \in members}
          /\ last' = Outcome("answer", c, 1)
     ELSE /\ UNCHANGED <<videoCallRooms, ioRooms, emitted>>
          /\ last' = Outcome("answer", c, 0)
  /\ UNCHANGED <<sessionVars, impl, callSeq, timers, restVars>>

\* socket.on('decline_call')
DeclineCall(c, userId) ==
  /\ impl = "socket"
  /\ IF c \in DOMAIN videoCallRooms /\ videoCallRooms[c].recipientId = userId
     THEN /\ videoCallRooms' = Delete(videoCallRooms, c)
          /\ emitted' = emitted \cup {Ev("call_declined", videoCallRooms[c].callerId, c)}
          /\ last' = Outcome("decline", c, 1)
     ELSE /\ UNCHANGED <<videoCallRooms, emitted>>
          /\ last' = Outcome("decline", c, 0)
  /\ UNCHANGED <<sessionVars, impl, callSeq, ioRooms, timers, restVars>>

\* socket.on('end_call')
EndCall(c, userId) ==
  /\ impl = "socket"
  /\ IF /\ c \in DOMAIN videoCallRooms
        /\ userId \in {videoCallRooms[c].callerId, videoCallRooms[c].recipientId}
     THEN /\ videoCallRooms' = Delete(videoCallRooms, c)
          /\ emitted' = emitted \cup {Ev("call_ended", u, c) : u \in ioRooms[c]}
          /\ ioRooms' = [ioRooms EXCEPT ![c] = @ \ {userId}]
          /\ last' = Outcome("end", c, 1)
     ELSE /\ UNCHANGED <<videoCallRooms, ioRooms, emitted>>
          /\ last' = Outcome("end", c, 0)
  /\ UNCHANGED <<sessionVars, impl, callSeq, timers, restVars>>

\* ----------------------------------------------------------- session state
NoEntries == [k \in {} |-> 0]

\* The SocketService as its constructor leaves it.
NewClient ==
  [reconnectAttempts |-> 0, isConnected |-> FALSE,
   pending |-> [k \in 1..(maxReconnectAttempts + 1) |-> 0],
   byApp |-> 0, byTimer |-> 0, retrying |-> 0, rejecting |-> 0, schedule |-> <<>>,
   socket |-> NULL, listening |-> FALSE, heard |-> "none", gaveUp |-> FALSE,
   stopped |-> FALSE]

\* The session state before any connection is accepted.
NoSessions ==
  /\ sockets = <<>>
  /\ activeConnections = NoEntries
  /\ online = NoEntries
  /\ conversationRooms = NoEntries
  /\ tasks = {}
  /\ wanted = {}
  /\ delivered = {}
  /\ messages = {}
  /\ outbox = <<>>
  /\ feed = <<>>
  /\ now = 0
  /\ client = NewClient

\* ------------------------------------------------------------ specification
Init ==
  /\ impl \in {"rest", "socket"}
  /\ calls = <<>>
  /\ coins = [u \in Users |-> InitCoins]
  /\ videoCallRooms = NoCalls
  /\ callSeq = 0
  /\ ioRooms = [c \in 1..MaxCalls |-> {}]
  /\ timers = {}
  /\ reqs = [r \in 1..MaxReq |-> Idle]
  /\ emitted = {}
  /\ last = NoOp
  /\ NoSessions

Next ==
  \/ \E r \in 1..MaxReq, q \in InitiateRequests : InitiateCheck(r, q[1], q[2], q[3])
  \/ \E r \in 1..MaxReq : InitiateInsert(r)
  \/ \E c \in 1..MaxCalls : CallTimeout(c)
  \/ \E r \in 1..MaxReq, c \in 1..MaxCalls, u \in Users : AnswerSelect(r, c, u)
  \/ \E r \in 1..MaxReq : AnswerUpdate(r)
  \/ \E c \in 1..MaxCalls, u \in Users : Decline(c, u)
  \/ \E c \in 1..MaxCalls, u \in Users : End(c, u)
  \/ \E q \in CallUserRequests : CallUser(q[1], q[2], q[3])
  \/ \E c \in 1..MaxCalls : AutoDecline(c)
  \/ \E c \in 1..MaxCalls, u \in Users : AnswerCall(c, u)
  \/ \E c \in 1..MaxCalls, u \in Users : DeclineCall(c, u)
  \/ \E c \in 1..MaxCalls, u \in Users : EndCall(c, u)

Spec == Init /\ [][Next]_vars

\* ------------------------------------------------------------- who is rung
\* Payloads of call_user whose sender is a participant of the conversation
\* they name: <<socket.userId, recipientId, conversationId>>.
RingRequests ==
  {<<"A", "B", "c1">>, <<"A", "C", "c1">>, <<"A", "A", "c1">>, <<"C", "B", "c2">>}

RingNext ==
  \/ \E r \in 1..MaxReq, q \in InitiateRequests : InitiateCheck(r, q[1], q[2], q[3])
  \/ \E r \in 1..MaxReq : InitiateInsert(r)
  \/ \E c \in 1..MaxCalls, u \in Users : End(c, u)
  \/ \E q \in RingRequests : CallUser(q[1], q[2], q[3])
  \/ \E c \in 1..MaxCalls : AutoDecline(c)
  \/ \E c \in 1..MaxCalls, u \in Users : DeclineCall(c, u)
  \/ \E c \in 1..MaxCalls, u \in Users : EndCall(c, u)

RingSpec == Init /\ [][RingNext]_vars

\* ------------------------------------------------------- shared vocabulary
\* Ids of the calls created so far, in either implementation.
Created == IF impl = "rest" THEN CallIds ELSE 1..callSeq

\* The status of a created call.  The socket handler keeps no terminal
\* status: it deletes the entry, and calls `active` what the table calls
\* `connected`.
StatusOf(c) ==
  IF impl = "rest" THEN calls[c].status
  ELSE IF c \notin DOMAIN videoCallRooms THEN "deleted"
  ELSE IF videoCallRooms[c].status = "active" THEN "connected"
  ELSE videoCallRooms[c].status

CallerOf(c) ==
  IF impl = "rest" THEN calls[c].caller_id ELSE videoCallRooms[c].callerId
RecipientOf(c) ==
  IF impl = "rest" THEN calls[c].recipient_id ELSE videoCallRooms[c].recipientId
OtherParty(c, u) == IF u = CallerOf(c) THEN RecipientOf(c) ELSE CallerOf(c)

\* The call store, the balances and the events of either implementation.
stores == <<calls, coins, videoCallRooms, emitted>>

\* The step is a run of the named handler on call c that took effect
\* (HTTP 200, or a socket handler that acted) or that was turned down
\* (HTTP 404, or a socket handler that ignored the event).
Accepted(op, c) == last'.op = op /\ last'.callId = c /\ last'.code \in {200, 1}
TurnedDown(op, c) == last'.op = op /\ last'.callId = c /\ last'.code \in {404, 0}

IsRinging(c) == c \in Created /\ StatusOf(c) = "ringing"
IsActive(c) == c \in Created /\ StatusOf(c) \in Active
IsTerminal(c) == c \in Created /\ StatusOf(c) \in Terminal \cup {"deleted"}

\* The live calls a user is a party to.
ActiveCallsOf(u) ==
  IF impl = "rest"
  THEN {c \in CallIds : calls[c].status \in Active
                        /\ u \in {calls[c].caller_id, calls[c].recipient_id}}
  ELSE {c \in DOMAIN videoCallRooms :
          u \in {videoCallRooms[c].callerId, videoCallRooms[c].recipientId}}

Sent(ev, c) == \E u \in Users : Ev(ev, u, c) \in emitted
TimeoutSent(c) ==
  \E u \in Users : Ev("call_timeout", u, c) \in emitted
                   \/ <<"call_declined", u, c, "timeout">> \in emitted

\* The step is the run of call c's timer.
TimerRuns(c) == c \in timers /\ c \notin timers'

\* ----------------------------------------------------- connection lifecycle
(***************************************************************************)
(* Both socket handlers: unnamed/part_009 (impl = "socket") and            *)
(* backend/utils/socketHandler.js (impl = "rest", the handler that goes    *)
(* with the REST routes: it shares their tables and leaves calls and       *)
(* messages to them).                                                      *)
(*                                                                         *)
(* A socket is `connecting` from the moment the connection callback starts *)
(* until its awaits are over; only then does the callback join the room    *)
(* user_<id> and register the event handlers (`ready`).  socket.io empties *)
(* a socket's rooms before it fires 'disconnect'.  A Redis command takes   *)
(* effect in the order it is issued, which is within the step that calls   *)
(* setUserOnline / setUserOffline; the store is taken to be available.     *)
(* Events that no claim of this module reads (user_online, user_offline,   *)
(* user_left_conversation, connection_established, call_initiated) are not *)
(* recorded.                                                               *)
(***************************************************************************)
NoConv == "none"
NoCall == 0

SocketIds == 1..Len(sockets)
UserOf(s) == sockets[s].userId

\* The sockets an emit can reach.
Connected == {s \in SocketIds : sockets[s].state \in {"connecting", "ready"}}

\* io.to(`user_${userId}`): the sockets that joined the user's personal room.
UserRoom(u) == {s \in SocketIds : sockets[s].state = "ready" /\ UserOf(s) = u}

\* io.to(conversation room)
ConversationRoom(conv) == {s \in Connected : conv \in sockets[s].rooms}

\* io.to(callId)
CallRoom(c) == {s \in Connected : c \in sockets[s].callRooms}

Deliver(ev, to, conv, c) == {<<ev, s, conv, c>> : s \in to}

\* io.on('connection') up to its first await: the registry entry and the
\* presence record.  The authentication middleware has accepted the token;
\* every user of Users is verified.
Connection(u) ==
  /\ Len(sockets) < MaxSockets
  /\ LET s == Len(sockets) + 1 IN
       /\ sockets' = Append(sockets,
            [userId |-> u, state |-> "connecting", rooms |-> {}, callRooms |-> {},
             currentConversation |-> NoConv, lastEvent |-> now])
       /\ activeConnections' = Set(activeConnections, u,
            [socketId |-> s, rooms |-> {}, lastSeen |-> now])
       /\ online' = Set(online, u, [socketId |-> s, expires |-> now + OnlineTtl])
       /\ feed' = Append(feed, <<>>)
  /\ delivered' = {}
  /\ UNCHANGED <<conversationRooms, tasks, wanted, messages, outbox>>
  /\ UNCHANGED <<client, now, impl, calls, coins, videoCallRooms, callSeq, ioRooms, timers, reqs, emitted, last>>

\* The users with whom u has a mutual match: the rows of `matches` with
\* user1_liked and user2_liked.
Matched(u) == {v \in Users : {u, v} \in MutualMatches}

\* user_online {userId} as the connection callback of socket s sends it:
\* socketHandler.js to the personal room of every mutual match,
\* socket.to(`user_${other_user_id}`); part_009 with socket.broadcast.emit,
\* to every connected socket but s.
UserOnline(s) ==
  IF impl = "rest"
  THEN {<<"user_online", t, UserOf(s), NoCall>> :
          t \in UNION {UserRoom(v) : v \in Matched(UserOf(s))} \ {s}}
  ELSE {<<"user_online", t, UserOf(s), NoCall>> : t \in Connected \ {s}}

\* io.on('connection') after its awaits: socket.join(`user_${userId}`),
\* user_online and the socket.on(...) registrations.
ConnectionReady(s) ==
  /\ s \in SocketIds
  /\ sockets[s].state = "connecting"
  /\ sockets' = [sockets EXCEPT ![s].state = "ready"]
  /\ delivered' = UserOnline(s)
  /\ UNCHANGED <<activeConnections, online, conversationRooms, tasks, wanted, messages, outbox, feed>>
  /\ UNCHANGED <<client, now, impl, calls, coins, videoCallRooms, callSeq, ioRooms, timers, reqs, emitted, last>>

\* The connection closes before the handlers are registered: 'disconnect'
\* fires with no listener.
CloseUnready(s) ==
  /\ s \in SocketIds
  /\ sockets[s].state = "connecting"
  /\ sockets' = [sockets EXCEPT ![s].state = "dropped"]
  /\ delivered' = {}
  /\ UNCHANGED <<activeConnections, online, conversationRooms, tasks, wanted, messages, outbox, feed>>
  /\ UNCHANGED <<client, now, impl, calls, coins, videoCallRooms, callSeq, ioRooms, timers, reqs, emitted, last>>

\* conversationRooms after the cleanup loop of backend/utils/socketHandler.js
\* has run over `rooms` for user u.
RECURSIVE CleanUp(_, _, _)
CleanUp(map, rooms, u) ==
  IF rooms = {} THEN map
  ELSE LET conversationId == CHOOSE r \in rooms : TRUE
           rest == rooms \ {conversationId}
       IN IF conversationId \in DOMAIN map
          THEN IF map[conversationId] \ {u} = {}
               THEN CleanUp(Delete(map, conversationId), rest, u)
               ELSE CleanUp([map EXCEPT ![conversationId] = @ \ {u}], rest, u)
          ELSE CleanUp(map, rest, u)

\* Disconnect that leaves the presence record in place.
Disconnect_KeepsPresence(s) ==
  /\ s \in SocketIds
  /\ sockets[s].state = "ready"
  /\ sockets' = [sockets EXCEPT ![s].state = IF impl = "socket" THEN "closing" ELSE "closed",
                                ![s].rooms = {}, ![s].callRooms = {}]
  /\ activeConnections' = Delete(activeConnections, UserOf(s))
  /\ delivered' = {}
  /\ UNCHANGED <<online, conversationRooms, tasks, wanted, messages, outbox, feed>>
  /\ UNCHANGED <<client, now, impl, calls, coins, videoCallRooms, callSeq, ioRooms, timers, reqs, emitted, last>>

\* socket.on('disconnect') up to its first await: activeConnections.delete,
\* in backend/utils/socketHandler.js the loop over
\* `activeConnections.get(userId)?.rooms || []` (evaluated after the delete),
\* and setUserOffline.  What follows the await there (users.is_online and
\* user_offline) touches nothing modelled.
Disconnect(s) ==
  /\ s \in SocketIds
  /\ sockets[s].state = "ready"
  /\ sockets' = [sockets EXCEPT ![s].state = IF impl = "socket" THEN "closing" ELSE "closed",
                                ![s].rooms = {}, ![s].callRooms = {}]
  /\ activeConnections' = Delete(activeConnections, UserOf(s))
  /\ conversationRooms' =
       IF impl = "rest"
       THEN CleanUp(conversationRooms,
                    IF UserOf(s) \in DOMAIN activeConnections'
                    THEN activeConnections'[UserOf(s)].rooms ELSE {},
                    UserOf(s))
       ELSE conversationRooms
  /\ online' = Delete(online, UserOf(s))
  /\ delivered' = {}
  /\ UNCHANGED <<tasks, wanted, messages, outbox, feed>>
  /\ UNCHANGED <<client, now, impl, calls, coins, videoCallRooms, callSeq, ioRooms, timers, reqs, emitted, last>>

\* The calls of videoCallRooms a user is a party to.
CallsOf(u) ==
  {c \in DOMAIN videoCallRooms :
     u \in {videoCallRooms[c].callerId, videoCallRooms[c].recipientId}}

\* unnamed/part_009, socket.on('disconnect') after `await setUserOffline`:
\* the loop that deletes the user's calls and emits call_ended to the room
\* named callId.
DisconnectCleanup(s) ==
  /\ impl = "socket"
  /\ s \in SocketIds
  /\ sockets[s].state = "closing"
  /\ sockets' = [sockets EXCEPT ![s].state = "closed"]
  /\ videoCallRooms' = [c \in DOMAIN videoCallRooms \ CallsOf(UserOf(s)) |-> videoCallRooms[c]]
  /\ delivered' = UNION {Deliver("call_ended", CallRoom(c), NoConv, c) : c \in CallsOf(UserOf(s))}
  /\ UNCHANGED <<activeConnections, online, conversationRooms, tasks, wanted,
                 messages, outbox, feed>>
  /\ UNCHANGED <<client, now, impl, calls, coins, callSeq, ioRooms, timers, reqs, emitted, last>>

\* ------------------------------------------------------- conversation rooms
Task(op, s, conv, m) == [op |-> op, socket |-> s, conv |-> conv, msg |-> m]

\* socket.on('join_conversation') up to the await of the conversation
\* lookup.
JoinConversation(s, conversationId) ==
  /\ s \in SocketIds
  /\ sockets[s].state = "ready"
  /\ Cardinality(tasks) < MaxTasks
  /\ Task("join", s, conversationId, 0) \notin tasks
  /\ tasks' = tasks \cup {Task("join", s, conversationId, 0)}
  /\ wanted' = IF conversationId \in ConversationIds
                    /\ UserOf(s) \in Conversations[conversationId]
                 THEN wanted \cup {<<s, conversationId>>} ELSE wanted
  /\ delivered' = {}
  /\ UNCHANGED <<sockets, activeConnections, online, conversationRooms, messages, outbox, feed>>
  /\ UNCHANGED <<client, now, impl, calls, coins, videoCallRooms, callSeq, ioRooms, timers, reqs, emitted, last>>

\* The join that was asked for takes effect: the socket is in the room (a
\* closed socket receives nothing, wherever the adapter lists it), and
\* part_009 notes the conversation as the socket's current one.
Joined(s, conversationId) ==
  IF sockets[s].state = "ready"
  THEN [sockets EXCEPT ![s].rooms = @ \cup {conversationId},
                       ![s].currentConversation =
                          IF impl = "socket" THEN conversationId ELSE @]
  ELSE sockets

\* Join that joins the room before it looks the conversation up.
JoinConversationDone_JoinsFirst(s, conversationId) ==
  /\ Task("join", s, conversationId, 0) \in tasks
  /\ tasks' = tasks \ {Task("join", s, conversationId, 0)}
  /\ sockets' = Joined(s, conversationId)
  /\ delivered' = IF conversationId \in ConversationIds /\ UserOf(s) \in Conversations[conversationId]
       THEN Deliver("joined_conversation", {s} \cap Connected, conversationId, NoCall)
            \cup Deliver("user_joined_conversation",
                         ConversationRoom(conversationId) \ {s}, conversationId, NoCall)
       ELSE Deliver("error", {s} \cap Connected, conversationId, NoCall)
  /\ UNCHANGED <<activeConnections, online, conversationRooms, wanted, messages, outbox, feed>>
  /\ UNCHANGED <<client, now, impl, calls, coins, videoCallRooms, callSeq, ioRooms, timers, reqs, emitted, last>>

\* socket.on('join_conversation') after the lookup: the two rejections,
\* socket.join, the bookkeeping (part_009: socket.currentConversation;
\* backend/utils/socketHandler.js: the connection's rooms and
\* conversationRooms, where activeConnections.get(userId).rooms throws when
\* the user has no registry entry and the catch answers with an error),
\* joined_conversation and user_joined_conversation.
JoinConversationDone(s, conversationId) ==
  /\ Task("join", s, conversationId, 0) \in tasks
  /\ tasks' = tasks \ {Task("join", s, conversationId, 0)}
  /\ LET userId == UserOf(s)
         reject == Deliver("error", {s} \cap Connected, conversationId, NoCall)
         accept == Deliver("joined_conversation", {s} \cap Connected, conversationId, NoCall)
                   \cup Deliver("user_joined_conversation",
                                ConversationRoom(conversationId) \ {s}, conversationId, NoCall)
     IN IF conversationId \notin ConversationIds
        THEN /\ delivered' = reject
             /\ UNCHANGED <<sockets, activeConnections, conversationRooms>>
        ELSE IF userId \notin Conversations[conversationId]
        THEN /\ delivered' = reject
             /\ UNCHANGED <<sockets, activeConnections, conversationRooms>>
        ELSE IF impl = "socket"
        THEN /\ sockets' = Joined(s, conversationId)
             /\ delivered' = accept
             /\ UNCHANGED <<activeConnections, conversationRooms>>
        ELSE IF userId \notin DOMAIN activeConnections
        THEN /\ sockets' = Joined(s, conversationId)
             /\ delivered' = reject
             /\ UNCHANGED <<activeConnections, conversationRooms>>
        ELSE /\ sockets' = Joined(s, conversationId)
             /\ activeConnections' =
                  [activeConnections EXCEPT ![userId].rooms = @ \cup {conversationId}]
             /\ conversationRooms' =
                  Set(conversationRooms, conversationId,
                      (IF conversationId \in DOMAIN conversationRooms
                       THEN conversationRooms[conversationId] ELSE {}) \cup {userId})
             /\ delivered' = accept
  /\ UNCHANGED <<online, wanted, messages, outbox, feed>>
  /\ UNCHANGED <<client, now, impl, calls, coins, videoCallRooms, callSeq, ioRooms, timers, reqs, emitted, last>>

\* socket.on('leave_conversation'): synchronous.  part_009 clears
\* socket.currentConversation whichever conversation is named.
LeaveConversation(s, conversationId) ==
  /\ s \in SocketIds
  /\ sockets[s].state = "ready"
  /\ sockets' = [sockets EXCEPT ![s].rooms = @ \ {conversationId},
                                ![s].currentConversation =
                                   IF impl = "socket" THEN NoConv ELSE @]
  /\ wanted' = wanted \ {<<s, conversationId>>}
  /\ IF impl = "rest"
     THEN /\ activeConnections' =
               IF UserOf(s) \in DOMAIN activeConnections
               THEN [activeConnections EXCEPT ![UserOf(s)].rooms = @ \ {conversationId}]
               ELSE activeConnections
          /\ conversationRooms' = CleanUp(conversationRooms, {conversationId}, UserOf(s))
     ELSE UNCHANGED <<activeConnections, conversationRooms>>
  /\ delivered' = {}
  /\ UNCHANGED <<online, tasks, messages, outbox, feed>>
  /\ UNCHANGED <<client, now, impl, calls, coins, videoCallRooms, callSeq, ioRooms, timers, reqs, emitted, last>>

\* ------------------------------------------- calls of a connected socket
\* socket.on('call_user') of part_009 on socket s (CallUser above, with the
\* events delivered to the sockets that are in the rooms they are sent to).
CallUserOn(s, recipientId, conversationId) ==
  /\ impl = "socket"
  /\ s \in SocketIds
  /\ sockets[s].state = "ready"
  /\ IF conversationId \notin ConversationIds \/ UserOf(s) \notin Conversations[conversationId]
     THEN /\ delivered' = Deliver("call_error", {s}, conversationId, NoCall)
          /\ UNCHANGED <<videoCallRooms, callSeq, timers>>
     ELSE LET callId == callSeq + 1 IN
          /\ callSeq < MaxCalls
          /\ callSeq' = callId
          /\ videoCallRooms' = Set(videoCallRooms, callId,
               [callerId |-> UserOf(s), recipientId |-> recipientId, status |-> "ringing"])
          /\ delivered' = Deliver("incoming_call", UserRoom(recipientId), conversationId, callId)
          /\ timers' = timers \cup {callId}
  /\ UNCHANGED <<sockets, activeConnections, online, conversationRooms, tasks, wanted,
                 messages, outbox, feed>>
  /\ UNCHANGED <<client, now, impl, calls, coins, ioRooms, reqs, emitted, last>>

\* socket.on('answer_call') of part_009 on socket s: the answering socket
\* and the socket registered for the caller join the room named callId.
AnswerCallOn(s, c) ==
  /\ impl = "socket"
  /\ s \in SocketIds
  /\ sockets[s].state = "ready"
  /\ c \in DOMAIN videoCallRooms
  /\ videoCallRooms[c].recipientId = UserOf(s)
  /\ LET callerId == videoCallRooms[c].callerId
         callerSocket == IF callerId \in DOMAIN activeConnections
                            /\ activeConnections[callerId].socketId \in Connected
                         THEN {activeConnections[callerId].socketId} ELSE {}
         joining == {s} \cup callerSocket
     IN /\ videoCallRooms' = [videoCallRooms EXCEPT ![c].status = "active"]
        /\ sockets' = [t \in SocketIds |->
             IF t \in joining THEN [sockets[t] EXCEPT !.callRooms = @ \cup {c}] ELSE sockets[t]]
        /\ delivered' = Deliver("call_answered", CallRoom(c) \cup joining, NoConv, c)
  /\ UNCHANGED <<activeConnections, online, conversationRooms, tasks, wanted,
                 messages, outbox, feed>>
  /\ UNCHANGED <<client, now, impl, calls, coins, callSeq, ioRooms, timers, reqs, emitted, last>>

\* ------------------------------------------------- session specification
\* The events the clients send in SessionSpec.
JoinRequests == {"c1", "c0"}
SessionCalls == {<<"B", "c1">>}
SessionInitiates == {<<"A", "B", "video">>}

SessionInit ==
  /\ impl \in {"rest", "socket"}
  /\ calls = <<>>
  /\ coins = [u \in Users |-> InitCoins]
  /\ videoCallRooms = NoCalls
  /\ callSeq = 0
  /\ ioRooms = [c \in 1..MaxCalls |-> {}]
  /\ timers = {}
  /\ reqs = [r \in 1..MaxReq |-> Idle]
  /\ emitted = {}
  /\ last = NoOp
  /\ NoSessions

SessionNext ==
  \/ \E u \in {"A", "C"} : Connection(u)
  \/ \E s \in 1..MaxSockets : ConnectionReady(s)
  \/ \E s \in 1..MaxSockets : CloseUnready(s)
  \/ \E s \in 1..MaxSockets : Disconnect(s)
  \/ \E s \in 1..MaxSockets : DisconnectCleanup(s)
  \/ \E s \in 1..MaxSockets, conv \in JoinRequests : JoinConversation(s, conv)
  \/ \E s \in 1..MaxSockets, conv \in JoinRequests : JoinConversationDone(s, conv)
  \/ \E s \in 1..MaxSockets, conv \in JoinRequests : LeaveConversation(s, conv)

SessionSpec == SessionInit /\ [][SessionNext]_vars

\* ------------------------------------------------------------------ messages
(***************************************************************************)
(* part_009 sends a message through the socket event send_message; the     *)
(* REST implementation through POST /:conversationId/messages of           *)
(* backend/routes/chat.js, which emits new_message to the conversation     *)
(* room from inside the callback it passes to `transaction` (the helper of *)
(* config/database, which commits or rolls back once the callback has      *)
(* returned).  A message is numbered when its handler accepts it, in the   *)
(* order the clients submit.  A query of either implementation may fail.   *)
(***************************************************************************)
Http == 0

Senders(m) == IF outbox[m].socket = Http THEN {} ELSE {outbox[m].socket} \cap Connected

\* The feeds after new_message for message m was emitted to `to`.
Emit(m, to) == [t \in SocketIds |-> IF t \in to THEN Append(feed[t], m) ELSE feed[t]]

\* socket.on('send_message') up to `await Message.create`.
SendMessage(s, conversationId) ==
  /\ impl = "socket"
  /\ s \in SocketIds
  /\ sockets[s].state = "ready"
  /\ IF sockets[s].currentConversation # conversationId
     THEN /\ delivered' = Deliver("error", {s}, conversationId, NoCall)
          /\ UNCHANGED <<outbox, tasks>>
     ELSE /\ Len(outbox) < MaxMsgs
          /\ outbox' = Append(outbox,
               [socket |-> s, user |-> UserOf(s), conv |-> conversationId])
          /\ tasks' = tasks \cup {Task("create", s, conversationId, Len(outbox) + 1)}
          /\ delivered' = {}
  /\ UNCHANGED <<sockets, activeConnections, online, conversationRooms, wanted, messages, feed>>
  /\ UNCHANGED <<client, now, impl, calls, coins, videoCallRooms, callSeq, ioRooms, timers, reqs, emitted, last>>

\* Message.create of send_message: the INSERT succeeds, or it throws and
\* the catch emits an error to the sender.
MessageCreate(m) ==
  /\ m \in 1..Len(outbox)
  /\ Task("create", outbox[m].socket, outbox[m].conv, m) \in tasks
  /\ \/ /\ messages' = messages \cup {m}
        /\ tasks' = (tasks \ {Task("create", outbox[m].socket, outbox[m].conv, m)})
                    \cup {Task("emit", outbox[m].socket, outbox[m].conv, m)}
        /\ delivered' = {}
     \/ /\ tasks' = tasks \ {Task("create", outbox[m].socket, outbox[m].conv, m)}
        /\ delivered' = Deliver("error", Senders(m), outbox[m].conv, NoCall)
        /\ UNCHANGED messages
  /\ UNCHANGED <<sockets, activeConnections, online, conversationRooms, wanted, outbox, feed>>
  /\ UNCHANGED <<client, now, impl, calls, coins, videoCallRooms, callSeq, ioRooms, timers, reqs, emitted, last>>

\* Emit that reaches every connected socket.
MessageEmit_Broadcast(m) ==
  /\ m \in 1..Len(outbox)
  /\ Task("emit", outbox[m].socket, outbox[m].conv, m) \in tasks
  /\ tasks' = tasks \ {Task("emit", outbox[m].socket, outbox[m].conv, m)}
  /\ feed' = Emit(m, Connected)
  /\ delivered' = {}
  /\ UNCHANGED <<sockets, activeConnections, online, conversationRooms, wanted, messages, outbox>>
  /\ UNCHANGED <<client, now, impl, calls, coins, videoCallRooms, callSeq, ioRooms, timers, reqs, emitted, last>>

\* send_message after Message.getWithSender:
\* io.to(`conversation_${conversationId}`).emit('new_message', fullMessage).
\* What follows (the recipient's presence lookup) sends nothing.
MessageEmit(m) ==
  /\ m \in 1..Len(outbox)
  /\ Task("emit", outbox[m].socket, outbox[m].conv, m) \in tasks
  /\ tasks' = tasks \ {Task("emit", outbox[m].socket, outbox[m].conv, m)}
  /\ feed' = Emit(m, ConversationRoom(outbox[m].conv))
  /\ delivered' = {}
  /\ UNCHANGED <<sockets, activeConnections, online, conversationRooms, wanted, messages, outbox>>
  /\ UNCHANGED <<client, now, impl, calls, coins, videoCallRooms, callSeq, ioRooms, timers, reqs, emitted, last>>

\* POST /:conversationId/messages up to the coin check: 404, 403, 400, or
\* the request goes on.
PostMessage(userId, conversationId) ==
  /\ impl = "rest"
  /\ IF conversationId \notin ConversationIds
     THEN /\ last' = Outcome("post", 0, 404)
          /\ UNCHANGED <<outbox, tasks>>
     ELSE IF userId \notin Conversations[conversationId]
     THEN /\ last' = Outcome("post", 0, 403)
          /\ UNCHANGED <<outbox, tasks>>
     ELSE IF coins[userId] < 1
     THEN /\ last' = Outcome("post", 0, 400)
          /\ UNCHANGED <<outbox, tasks>>
     ELSE /\ Len(outbox) < MaxMsgs
          /\ outbox' = Append(outbox,
               [socket |-> Http, user |-> userId, conv |-> conversationId])
          /\ tasks' = tasks \cup {Task("insert", Http, conversationId, Len(outbox) + 1)}
          /\ last' = Outcome("post_check", Len(outbox) + 1, 0)
  /\ delivered' = {}
  /\ UNCHANGED <<sockets, activeConnections, online, conversationRooms, wanted, messages, feed>>
  /\ UNCHANGED <<client, now, impl, calls, coins, videoCallRooms, callSeq, ioRooms, timers, reqs, emitted>>

\* The posts whose transaction holds the row lock of the sender's users row
\* (taken by UPDATE users SET coins = coins - 1).
Locking(userId) ==
  {m \in 1..Len(outbox) :
     outbox[m].user = userId /\ Task("commit", Http, outbox[m].conv, m) \in tasks}

\* POST /:conversationId/messages from the coin UPDATE to the end of the
\* callback: the INSERT, the 201 response and new_message to the room; or
\* a query throws, the transaction is rolled back and the answer is 500.
PostInsert(m) ==
  /\ m \in 1..Len(outbox)
  /\ Task("insert", Http, outbox[m].conv, m) \in tasks
  /\ Locking(outbox[m].user) = {}
  /\ \/ /\ tasks' = (tasks \ {Task("insert", Http, outbox[m].conv, m)})
                    \cup {Task("commit", Http, outbox[m].conv, m)}
        /\ feed' = Emit(m, ConversationRoom(outbox[m].conv))
        /\ last' = Outcome("post", m, 201)
     \/ /\ tasks' = tasks \ {Task("insert", Http, outbox[m].conv, m)}
        /\ last' = Outcome("post", m, 500)
        /\ UNCHANGED feed
  /\ delivered' = {}
  /\ UNCHANGED <<sockets, activeConnections, online, conversationRooms, wanted, messages, outbox>>
  /\ UNCHANGED <<client, now, impl, calls, coins, videoCallRooms, callSeq, ioRooms, timers, reqs, emitted>>

\* The end of `transaction`: COMMIT makes the message row and the coin
\* deduction durable, or it fails and both are rolled back; the 201 has
\* been sent by then.
PostCommit(m) ==
  /\ m \in 1..Len(outbox)
  /\ Task("commit", Http, outbox[m].conv, m) \in tasks
  /\ tasks' = tasks \ {Task("commit", Http, outbox[m].conv, m)}
  /\ \/ /\ messages' = messages \cup {m}
        /\ coins' = [coins EXCEPT ![outbox[m].user] = @ - 1]
        /\ last' = Outcome("post_commit", m, 0)
     \/ /\ last' = Outcome("post_rollback", m, 0)
        /\ UNCHANGED <<messages, coins>>
  /\ delivered' = {}
  /\ UNCHANGED <<sockets, activeConnections, online, conversationRooms, wanted, outbox, feed>>
  /\ UNCHANGED <<client, now, impl, calls, videoCallRooms, callSeq, ioRooms, timers, reqs, emitted>>

\* ------------------------------------------------- message specification
\* A, B and C are connected, one socket each, and have joined nothing.
MessageUsers == <<"A", "B", "C">>

\* The session state when the users of the sequence have connected at time
\* 0, one socket each in this order, and their connection callbacks have
\* returned.
ReadySessions(users) ==
  /\ sockets = [s \in DOMAIN users |->
       [userId |-> users[s], state |-> "ready", rooms |-> {}, callRooms |-> {},
        currentConversation |-> NoConv, lastEvent |-> 0]]
  /\ activeConnections = [u \in {users[s] : s \in DOMAIN users} |->
       [socketId |-> CHOOSE s \in DOMAIN users : users[s] = u, rooms |-> {}, lastSeen |-> 0]]
  /\ online = [u \in {users[s] : s \in DOMAIN users} |->
       [socketId |-> CHOOSE s \in DOMAIN users : users[s] = u, expires |-> OnlineTtl]]
  /\ conversationRooms = NoEntries
  /\ tasks = {}
  /\ wanted = {}
  /\ delivered = {}
  /\ messages = {}
  /\ outbox = <<>>
  /\ feed = [s \in DOMAIN users |-> <<>>]
  /\ now = 0
  /\ client = NewClient
MessageRooms == {"c1"}
\* The sockets that join and leave the room (C's stays outside), and the one
\* that drops off while messages are under way (B's).
MessageJoins == {1, 2}
MessageDrops == {2}

MessageInit ==
  /\ impl \in {"rest", "socket"}
  /\ calls = <<>>
  /\ coins = [u \in Users |-> InitCoins]
  /\ videoCallRooms = NoCalls
  /\ callSeq = 0
  /\ ioRooms = [c \in 1..MaxCalls |-> {}]
  /\ timers = {}
  /\ reqs = [r \in 1..MaxReq |-> Idle]
  /\ emitted = {}
  /\ last = NoOp
  /\ ReadySessions(MessageUsers)

MessageNext ==
  \/ \E s \in MessageJoins, conv \in MessageRooms : JoinConversation(s, conv)
  \/ \E s \in MessageJoins, conv \in MessageRooms : JoinConversationDone(s, conv)
  \/ \E s \in MessageJoins, conv \in MessageRooms : LeaveConversation(s, conv)
  \/ \E s \in MessageDrops : Disconnect(s)
  \/ \E s \in MessageDrops : DisconnectCleanup(s)
  \/ \E s \in DOMAIN MessageUsers, conv \in MessageRooms : SendMessage(s, conv)
  \/ \E m \in 1..MaxMsgs : MessageCreate(m)
  \/ \E m \in 1..MaxMsgs : MessageEmit(m)
  \/ \E q \in {<<"A", "c1">>, <<"C", "c1">>} : PostMessage(q[1], q[2])
  \/ \E m \in 1..MaxMsgs : PostInsert(m)
  \/ \E m \in 1..MaxMsgs : PostCommit(m)

MessageSpec == MessageInit /\ [][MessageNext]_vars

\* -------------------------------------------------------------------- typing
\* socket.on('typing_start'); typing_stop is the same handler but for the
\* isTyping flag of the payload.  part_009 relays only when the conversation
\* is the socket's currentConversation; socketHandler.js relays whenever a
\* conversationId is given.  socket.to(room) leaves the sending socket out.
TypingStart(s, conversationId) ==
  /\ s \in SocketIds
  /\ sockets[s].state = "ready"
  /\ IF impl = "socket" /\ sockets[s].currentConversation # conversationId
     THEN delivered' = {}
     ELSE delivered' = Deliver("user_typing", ConversationRoom(conversationId) \ {s},
                               conversationId, NoCall)
  /\ sockets' = [sockets EXCEPT ![s].lastEvent = now]
  /\ UNCHANGED <<activeConnections, online, conversationRooms, tasks, wanted,
                 messages, outbox, feed>>
  /\ UNCHANGED <<client, now, impl, calls, coins, videoCallRooms, callSeq, ioRooms, timers, reqs, emitted, last>>

\* ----------------------------------------------------- room specification
\* A, B and C are connected, one socket each; B takes part in both
\* conversations, A in c1 and C in c2.
\* <<socket, conversation>>: what the sockets join and leave, where they
\* type (C's socket types into a conversation it has no part in), and where
\* B's socket sends.
RoomJoins == {<<1, "c1">>, <<2, "c1">>, <<2, "c2">>}

RoomNext ==
  \/ \E q \in RoomJoins : JoinConversation(q[1], q[2])
  \/ \E q \in RoomJoins : JoinConversationDone(q[1], q[2])
  \/ \E q \in RoomJoins : LeaveConversation(q[1], q[2])
  \/ \E q \in {<<2, "c1">>, <<2, "c2">>, <<3, "c1">>} : TypingStart(q[1], q[2])
  \/ \E q \in {<<2, "c1">>, <<2, "c2">>} : SendMessage(q[1], q[2])
  \/ \E m \in 1..MaxMsgs : MessageCreate(m)
  \/ \E m \in 1..MaxMsgs : MessageEmit(m)

RoomSpec == MessageInit /\ [][RoomNext]_vars

\* ----------------------------------------------------------------- signaling
\* socket.on('end_call') of part_009 on socket s (EndCall above): the call
\* is deleted, call_ended goes to the room named callId, and the socket that
\* ended the call leaves the room; the other sockets stay in it.
EndCallOn(s, c) ==
  /\ impl = "socket"
  /\ s \in SocketIds
  /\ sockets[s].state = "ready"
  /\ c \in DOMAIN videoCallRooms
  /\ UserOf(s) \in {videoCallRooms[c].callerId, videoCallRooms[c].recipientId}
  /\ videoCallRooms' = Delete(videoCallRooms, c)
  /\ delivered' = Deliver("call_ended", CallRoom(c), NoConv, c)
  /\ sockets' = [sockets EXCEPT ![s].callRooms = @ \ {c}]
  /\ UNCHANGED <<activeConnections, online, conversationRooms, tasks, wanted,
                 messages, outbox, feed>>
  /\ UNCHANGED <<client, now, impl, calls, coins, callSeq, ioRooms, timers, reqs, emitted, last>>

\* The signaling events: the names under which the payloads are relayed.
Signals == {"call_offer", "call_answer", "ice_candidate",
            "webrtc_offer", "webrtc_answer", "webrtc_ice_candidate"}

\* A relayed payload {callId, ..., from: userId} as it reaches the sockets
\* in `to`.
Relay(ev, to, from, c) == {<<ev, s, from, c>> : s \in to}

\* socket.on('call_offer') of socketHandler.js: the call must exist with the
\* sender as caller or recipient; the offer goes to the personal room of the
\* recipientId of the event.
CallOffer(s, c, recipientId) ==
  /\ impl = "rest"
  /\ s \in SocketIds
  /\ sockets[s].state = "ready"
  /\ IF c \in CallIds /\ UserOf(s) \in {calls[c].caller_id, calls[c].recipient_id}
     THEN delivered' = Relay("call_offer", UserRoom(recipientId), UserOf(s), c)
     ELSE delivered' = Deliver("error", {s}, NoConv, c)
  /\ UNCHANGED <<sockets, activeConnections, online, conversationRooms, tasks, wanted,
                 messages, outbox, feed>>
  /\ UNCHANGED <<client, now, impl, calls, coins, videoCallRooms, callSeq, ioRooms, timers, reqs, emitted, last>>

\* socket.on('call_answer') and socket.on('ice_candidate') of
\* socketHandler.js: the payload goes to the personal room of the user the
\* event names (callerId, targetUserId); no query is made.
CallRelay(ev, s, c, targetUserId) ==
  /\ impl = "rest"
  /\ ev \in {"call_answer", "ice_candidate"}
  /\ s \in SocketIds
  /\ sockets[s].state = "ready"
  /\ delivered' = Relay(ev, UserRoom(targetUserId), UserOf(s), c)
  /\ UNCHANGED <<sockets, activeConnections, online, conversationRooms, tasks, wanted,
                 messages, outbox, feed>>
  /\ UNCHANGED <<client, now, impl, calls, coins, videoCallRooms, callSeq, ioRooms, timers, reqs, emitted, last>>

\* POST /:callId/offer and /:callId/ice-candidate of calls.js: 404 unless
\* the call is connected, 403 unless the user is its caller or recipient,
\* else 200 and the payload goes to the personal room of the other
\* participant.  The router holds two routes for POST /:callId/answer: Express
\* runs the one registered first, the call answer of AnswerSelect, which
\* responds without calling next(), so the WebRTC answer route registered
\* after it handles no request.
PostSignal(ev, userId, c) ==
  /\ impl = "rest"
  /\ ev \in {"webrtc_offer", "ice_candidate"}
  /\ IF ~(c \in CallIds /\ calls[c].status = "connected")
     THEN /\ last' = Outcome(ev, c, 404)
          /\ delivered' = {}
     ELSE IF userId \notin {calls[c].caller_id, calls[c].recipient_id}
     THEN /\ last' = Outcome(ev, c, 403)
          /\ delivered' = {}
     ELSE LET otherUserId == IF calls[c].caller_id = userId
                             THEN calls[c].recipient_id ELSE calls[c].caller_id
          IN /\ last' = Outcome(ev, c, 200)
             /\ delivered' = Relay(ev, UserRoom(otherUserId), userId, c)
  /\ UNCHANGED <<sockets, activeConnections, online, conversationRooms, tasks, wanted,
                 messages, outbox, feed>>
  /\ UNCHANGED <<client, now, impl, calls, coins, videoCallRooms, callSeq, ioRooms, timers, reqs, emitted>>

\* socket.on('webrtc_offer'), 'webrtc_answer' and 'webrtc_ice_candidate' of
\* part_009: socket.to(callId).emit(...), the room named callId but for the
\* sending socket.
Webrtc(ev, s, c) ==
  /\ impl = "socket"
  /\ ev \in {"webrtc_offer", "webrtc_answer", "webrtc_ice_candidate"}
  /\ s \in SocketIds
  /\ sockets[s].state = "ready"
  /\ delivered' = Relay(ev, CallRoom(c) \ {s}, UserOf(s), c)
  /\ UNCHANGED <<sockets, activeConnections, online, conversationRooms, tasks, wanted,
                 messages, outbox, feed>>
  /\ UNCHANGED <<client, now, impl, calls, coins, videoCallRooms, callSeq, ioRooms, timers, reqs, emitted, last>>

\* ------------------------------------------------- signaling specification
\* A, B and C are connected, one socket each; A calls B, and all three send
\* signaling events that name the calls.
\* The users who call and are called in CallSessionSpec and SignalSpec.
CallSessionUsers == {"A", "B"}
SignalTargets == {"B", "C"}
\* The sockets that send signaling events (A's and C's).
SignalSenders == {1, 3}

SignalNext ==
  \/ \E r \in 1..MaxReq, q \in SessionInitiates : InitiateCheck(r, q[1], q[2], q[3])
  \/ \E r \in 1..MaxReq : InitiateInsert(r)
  \/ \E r \in 1..MaxReq, c \in 1..MaxCalls : AnswerSelect(r, c, "B")
  \/ \E r \in 1..MaxReq : AnswerUpdate(r)
  \/ \E c \in 1..MaxCalls : End(c, "A")
  \/ \E s \in DOMAIN MessageUsers, q \in SessionCalls : CallUserOn(s, q[1], q[2])
  \/ \E s \in DOMAIN MessageUsers, c \in 1..MaxCalls : AnswerCallOn(s, c)
  \/ \E s \in DOMAIN MessageUsers, c \in 1..MaxCalls : EndCallOn(s, c)
  \/ \E s \in SignalSenders, c \in 1..MaxCalls, u \in SignalTargets : CallOffer(s, c, u)
  \/ \E ev \in {"call_answer", "ice_candidate"}, s \in SignalSenders, c \in 1..MaxCalls, u \in SignalTargets :
       CallRelay(ev, s, c, u)
  \/ \E ev \in {"webrtc_offer", "ice_candidate"}, u \in {"A", "C"}, c \in 1..MaxCalls : PostSignal(ev, u, c)
  \/ \E ev \in {"webrtc_offer", "webrtc_ice_candidate"}, s \in SignalSenders, c \in 1..MaxCalls : Webrtc(ev, s, c)

SignalSpec == MessageInit /\ [][SignalNext]_vars

\* ------------------------------------------------------------- handshake
\* The token of a handshake: absent, or a JWT whose signature is good or
\* not, whose exp has passed or not, and that names a user.  Z is a user id
\* with no row in `users`.
Tokens ==
  {[present |-> FALSE, signed |-> FALSE, expired |-> FALSE, userId |-> NoUser]} \cup
  {[present |-> TRUE, signed |-> sg, expired |-> ex, userId |-> u] :
     sg \in BOOLEAN, ex \in BOOLEAN, u \in {"A", "B", "C", "Z"}}

\* jwt.verify(token, process.env.JWT_SECRET): the decoded user id, or a
\* throw for a bad signature or an expired token.
JwtVerify(token) ==
  IF token.signed /\ ~token.expired
  THEN [thrown |-> FALSE, userId |-> token.userId]
  ELSE [thrown |-> TRUE, userId |-> NoUser]

\* The middleware calls next(new Error(...)): no token, jwt.verify throws,
\* no row for the user, or (socketHandler.js) the user is not verified.
Refuses(token) ==
  \/ ~token.present
  \/ JwtVerify(token).thrown
  \/ JwtVerify(token).userId \notin Users
  \/ impl = "rest" /\ JwtVerify(token).userId \notin Verified

\* A handshake that looks the user up only after the connection callback
\* has run.
Handshake_LateLookup(token) ==
  /\ IF ~token.present \/ JwtVerify(token).thrown
     THEN /\ last' = Outcome("connect_error", 0, 0)
          /\ delivered' = {}
          /\ UNCHANGED <<sockets, activeConnections, online, conversationRooms, tasks,
                         wanted, messages, outbox, feed>>
          /\ UNCHANGED <<client, now, impl, calls, coins, videoCallRooms, callSeq, ioRooms, timers,
                         reqs, emitted>>
     ELSE Connection(JwtVerify(token).userId)

\* A client connects with the token: the middleware given to io.use refuses
\* it and the client gets connect_error, or it sets socket.userId and
\* io.on('connection') runs.
Handshake(token) ==
  /\ IF Refuses(token)
     THEN /\ last' = Outcome("connect_error", 0, 0)
          /\ delivered' = {}
          /\ UNCHANGED <<sockets, activeConnections, online, conversationRooms, tasks,
                         wanted, messages, outbox, feed>>
          /\ UNCHANGED <<client, now, impl, calls, coins, videoCallRooms, callSeq, ioRooms, timers,
                         reqs, emitted>>
     ELSE Connection(JwtVerify(token).userId)

\* ------------------------------------------------ connect specification
ConnectNext ==
  \/ \E token \in Tokens : Handshake(token)
  \/ \E s \in 1..MaxSockets : ConnectionReady(s)
  \/ \E s \in 1..MaxSockets : CloseUnready(s)
  \/ \E s \in 1..MaxSockets : Disconnect(s)
  \/ \E s \in 1..MaxSockets : DisconnectCleanup(s)
  \/ \E s \in 1..MaxSockets, conv \in JoinRequests : JoinConversation(s, conv)
  \/ \E s \in 1..MaxSockets, conv \in JoinRequests : JoinConversationDone(s, conv)

ConnectSpec == SessionInit /\ [][ConnectNext]_vars

\* ------------------------------------------------------- time and the sweep
\* A minute passes.  Redis drops the keys whose time to live has run out.
Tick ==
  /\ now < MaxClock
  /\ now' = now + 1
  /\ online' = [u \in {v \in DOMAIN online : online[v].expires > now + 1} |-> online[u]]
  /\ delivered' = {}
  /\ UNCHANGED <<sockets, activeConnections, conversationRooms, tasks, wanted,
                 messages, outbox, feed>>
  /\ UNCHANGED <<client, impl, calls, coins, videoCallRooms, callSeq, ioRooms, timers, reqs, emitted, last>>

\* The registry entries that the sweep of part_009 finds too old:
\* now - connection.lastSeen > 5 * 60 * 1000.
Stale == {u \in DOMAIN activeConnections :
            (now - activeConnections[u].lastSeen) * SweepEveryMs > StaleAfterMs}

\* The setInterval callback of part_009, which runs at every tick of the
\* clock or less often: each stale
\* entry is deleted from the registry and setUserOffline is called for it.
Sweep ==
  /\ impl = "socket"
  /\ activeConnections' = [u \in DOMAIN activeConnections \ Stale |-> activeConnections[u]]
  /\ online' = [u \in DOMAIN online \ Stale |-> online[u]]
  /\ delivered' = {}
  /\ UNCHANGED <<sockets, conversationRooms, tasks, wanted, messages, outbox, feed>>
  /\ UNCHANGED <<client, now, impl, calls, coins, videoCallRooms, callSeq, ioRooms, timers, reqs, emitted, last>>

\* --------------------------------------------------- sweep specification
\* A and B are connected since time 0; A joins c1, types and calls B while
\* the minutes pass.
SweepRooms == {"c1"}

SweepInit ==
  /\ impl \in {"rest", "socket"}
  /\ calls = <<>>
  /\ coins = [u \in Users |-> InitCoins]
  /\ videoCallRooms = NoCalls
  /\ callSeq = 0
  /\ ioRooms = [c \in 1..MaxCalls |-> {}]
  /\ timers = {}
  /\ reqs = [r \in 1..MaxReq |-> Idle]
  /\ emitted = {}
  /\ last = NoOp
  /\ ReadySessions(<<"A", "B">>)

SweepNext ==
  \/ Tick
  \/ Sweep
  \/ \E conv \in SweepRooms : TypingStart(1, conv)
  \/ \E conv \in SweepRooms : JoinConversation(1, conv)
  \/ \E conv \in SweepRooms : JoinConversationDone(1, conv)
  \/ \E q \in SessionCalls : CallUserOn(1, q[1], q[2])

SweepSpec == SweepInit /\ [][SweepNext]_vars

\* ----------------------------------------------------------- call duration
\* A second passes.
Second ==
  /\ now < MaxSeconds
  /\ now' = now + 1
  /\ UNCHANGED <<sockets, activeConnections, online, conversationRooms, tasks, wanted,
                 delivered, messages, outbox, feed, client>>
  /\ UNCHANGED <<impl, calls, coins, videoCallRooms, callSeq, ioRooms, timers, reqs, emitted, last>>

\* A has just called B: the state InitiateInsert leaves at time 0.
DurationInit ==
  /\ impl = "rest"
  /\ calls = <<[caller_id |-> "A", recipient_id |-> "B", call_type |-> "video",
                status |-> "ringing", answered_at |-> NULL, ended_at |-> NULL,
                created_sec |-> 0, answered_sec |-> 0, connected_sec |-> 0,
                duration |-> NoDuration, told |-> NoDuration, charges |-> 0]>>
  /\ coins = [u \in Users |-> InitCoins]
  /\ videoCallRooms = NoCalls
  /\ callSeq = 0
  /\ ioRooms = [c \in 1..MaxCalls |-> {}]
  /\ timers = {1}
  /\ reqs = [r \in 1..MaxReq |-> Idle]
  /\ emitted = {Ev("incoming_call", "B", 1)}
  /\ last = Outcome("initiate", 1, 201)
  /\ NoSessions

DurationNext ==
  \/ \E r \in 1..MaxReq : AnswerSelect(r, 1, "B")
  \/ \E r \in 1..MaxReq : AnswerUpdate(r)
  \/ \E u \in {"A", "B"} : End(1, u)
  \/ Second

DurationSpec == DurationInit /\ [][DurationNext]_vars

\* ------------------------------------------------------------------ coins
\* The caller holds just the price of a video call and pays for messages
\* as well.
CoinInit ==
  /\ impl = "rest"
  /\ calls = <<>>
  /\ coins = [u \in Users |-> VideoCost]
  /\ videoCallRooms = NoCalls
  /\ callSeq = 0
  /\ ioRooms = [c \in 1..MaxCalls |-> {}]
  /\ timers = {}
  /\ reqs = [r \in 1..MaxReq |-> Idle]
  /\ emitted = {}
  /\ last = NoOp
  /\ NoSessions

CoinNext ==
  \/ \E r \in 1..MaxReq, q \in {<<"A", "B", "video">>} : InitiateCheck(r, q[1], q[2], q[3])
  \/ \E r \in 1..MaxReq : InitiateInsert(r)
  \/ \E c \in 1..MaxCalls : CallTimeout(c)
  \/ \E r \in 1..MaxReq, c \in 1..MaxCalls : AnswerSelect(r, c, "B")
  \/ \E r \in 1..MaxReq : AnswerUpdate(r)
  \/ \E c \in 1..MaxCalls : Decline(c, "B")
  \/ \E c \in 1..MaxCalls : End(c, "A")
  \/ \E q \in {<<"A", "c1">>} : PostMessage(q[1], q[2])
  \/ \E m \in 1..MaxMsgs : PostInsert(m)
  \/ \E m \in 1..MaxMsgs : PostCommit(m)

CoinSpec == CoinInit /\ [][CoinNext]_vars

\* -------------------------------------------------------- client reconnect
(***************************************************************************)
(* One SocketService of src/services/SocketService.js.  `client` holds its *)
(* reconnectAttempts and isConnected, the reconnect timers that are armed  *)
(* (pending[k]: how many were armed when reconnectAttempts became k), the  *)
(* connect() calls whose socket has neither connected nor failed yet, by   *)
(* who made them (the application, or a reconnect timer, whose catch calls *)
(* reconnect() again), the sockets that socket.io-client goes on retrying  *)
(* by itself after a connect_error, and `schedule`, the delays of the      *)
(* timers armed since the client was created or last connected.            *)
(* `socket` is this.socket, NULL or SET; `rejecting` counts the connect()   *)
(* calls of reconnect timers whose socket disconnect() closed and whose    *)
(* promise the 10 s timeout will reject.  `listening` tells whether the    *)
(* SocketProvider has its listeners registered (it registers them after    *)
(* its connect() resolved, disconnect() clears them) and `heard` is the    *)
(* last event SocketService.emit handed to them.  `gaveUp` records that    *)
(* reconnect() returned at the cap since the client last connected, and    *)
(* `stopped` that disconnect() was the application's last call.            *)
(***************************************************************************)
RECURSIVE Math_pow(_, _)
Math_pow(base, exponent) == IF exponent = 0 THEN 1 ELSE base * Math_pow(base, exponent - 1)

InFlight == client.byApp + client.byTimer + client.retrying + client.rejecting

\* SocketService.emit(event, data) applied to the client state c.
emit(c, event) == IF c.listening THEN [c EXCEPT !.heard = event] ELSE c

RECURSIVE ArmedUpTo(_, _)
ArmedUpTo(c, k) == IF k = 0 THEN 0 ELSE c.pending[k] + ArmedUpTo(c, k - 1)

\* The reconnect timers of c that have not run yet.
Armed(c) == ArmedUpTo(c, maxReconnectAttempts + 1)

\* SocketService.reconnect() applied to the client state c.
reconnect_NoCap(c) ==
  LET delay == reconnectDelay * Math_pow(2, c.reconnectAttempts)
  IN [c EXCEPT !.reconnectAttempts = @ + 1,
               !.pending[c.reconnectAttempts + 1] = @ + 1,
               !.schedule = Append(@, delay)]

reconnect(c) ==
  IF c.reconnectAttempts >= maxReconnectAttempts
  THEN [c EXCEPT !.gaveUp = TRUE]
  ELSE LET attempts == c.reconnectAttempts + 1
           delay == reconnectDelay * Math_pow(2, attempts - 1)
       IN [c EXCEPT !.reconnectAttempts = attempts,
                    !.pending[attempts] = @ + 1,
                    !.schedule = Append(@, delay)]

\* The application calls connect().
AppConnect ==
  /\ InFlight < MaxInFlight
  /\ client' = [client EXCEPT !.byApp = @ + 1, !.socket = SET, !.stopped = FALSE]
  /\ UNCHANGED <<sockets, activeConnections, online, conversationRooms, tasks, wanted,
                 delivered, messages, outbox, feed, now>>
  /\ UNCHANGED <<impl, calls, coins, videoCallRooms, callSeq, ioRooms, timers, reqs, emitted, last>>

\* 'connect' on a socket that was connecting: both listeners set
\* isConnected and reset reconnectAttempts, connection_status is emitted,
\* and the connect() the SocketProvider awaited resolves, after which it
\* registers its listeners.
ClientConnected(by) ==
  /\ by \in {"byApp", "byTimer", "retrying"}
  /\ client[by] > 0
  /\ client' = [emit(client, "connection_status") EXCEPT
                  ![by] = @ - 1, !.isConnected = TRUE,
                  !.reconnectAttempts = 0, !.schedule = <<>>, !.gaveUp = FALSE,
                  !.listening = @ \/ by = "byApp"]
  /\ UNCHANGED <<sockets, activeConnections, online, conversationRooms, tasks, wanted,
                 delivered, messages, outbox, feed, now>>
  /\ UNCHANGED <<impl, calls, coins, videoCallRooms, callSeq, ioRooms, timers, reqs, emitted, last>>

\* 'connect_error' on a socket that was connecting: the listener of
\* setupEventHandlers calls reconnect(); the promise of connect() rejects,
\* and when a reconnect timer made the call its catch calls reconnect() once
\* more.  socket.io-client gives the socket up or goes on retrying it.
ClientConnectError(by, retried) ==
  /\ by \in {"byApp", "byTimer", "retrying"}
  /\ client[by] > 0
  /\ LET left == [emit(client, "connection_error") EXCEPT ![by] = @ - 1]
         kept == IF retried THEN [left EXCEPT !.retrying = @ + 1] ELSE left
     IN client' = IF by = "byTimer" THEN reconnect(reconnect(kept)) ELSE reconnect(kept)
  /\ Armed(client') <= MaxArmed
  /\ UNCHANGED <<sockets, activeConnections, online, conversationRooms, tasks, wanted,
                 delivered, messages, outbox, feed, now>>
  /\ UNCHANGED <<impl, calls, coins, videoCallRooms, callSeq, ioRooms, timers, reqs, emitted, last>>

\* The 10 s timeout of connect() rejects its promise while the socket has
\* not connected: the catch of a reconnect timer calls reconnect(); a socket
\* that is still connecting keeps the listeners of setupEventHandlers.
ClientConnectTimeout(by) ==
  /\ by \in {"byApp", "byTimer", "rejecting"}
  /\ client[by] > 0
  /\ LET left == [client EXCEPT ![by] = @ - 1]
         kept == IF by = "rejecting" THEN left ELSE [left EXCEPT !.retrying = @ + 1]
     IN client' = IF by = "byApp" THEN kept ELSE reconnect(kept)
  /\ Armed(client') <= MaxArmed
  /\ UNCHANGED <<sockets, activeConnections, online, conversationRooms, tasks, wanted,
                 delivered, messages, outbox, feed, now>>
  /\ UNCHANGED <<impl, calls, coins, videoCallRooms, callSeq, ioRooms, timers, reqs, emitted, last>>

\* 'disconnect' with reason 'io server disconnect' on the connected client.
ClientServerDisconnect ==
  /\ client.isConnected
  /\ client' = reconnect([emit(client, "connection_status") EXCEPT !.isConnected = FALSE])
  /\ Armed(client') <= MaxArmed
  /\ UNCHANGED <<sockets, activeConnections, online, conversationRooms, tasks, wanted,
                 delivered, messages, outbox, feed, now>>
  /\ UNCHANGED <<impl, calls, coins, videoCallRooms, callSeq, ioRooms, timers, reqs, emitted, last>>

\* 'disconnect' with another reason (the transport closed): no reconnect()
\* call, socket.io-client retries the socket by itself.
ClientTransportClose ==
  /\ client.isConnected
  /\ InFlight < MaxInFlight
  /\ client' = [emit(client, "connection_status") EXCEPT
                  !.isConnected = FALSE, !.retrying = @ + 1]
  /\ UNCHANGED <<sockets, activeConnections, online, conversationRooms, tasks, wanted,
                 delivered, messages, outbox, feed, now>>
  /\ UNCHANGED <<impl, calls, coins, videoCallRooms, callSeq, ioRooms, timers, reqs, emitted, last>>

\* The application calls disconnect(): this.socket is closed and forgotten
\* and the listeners are cleared.  this.socket is the socket of the latest
\* connect(): `closing` tells whether it was still connecting and for whom;
\* a connect() of a reconnect timer then stays pending until its timeout.
ClientDisconnect(closing) ==
  /\ closing \in {"none", "byApp", "byTimer", "retrying"}
  /\ client.socket # NULL
  /\ closing # "none" => client[closing] > 0
  /\ LET told == IF client.isConnected THEN emit(client, "connection_status") ELSE client
         closed == IF closing = "none" THEN told ELSE [told EXCEPT ![closing] = @ - 1]
         left == IF closing = "byTimer" THEN [closed EXCEPT !.rejecting = @ + 1] ELSE closed
     IN client' = [left EXCEPT !.socket = NULL, !.isConnected = FALSE,
                               !.listening = FALSE, !.stopped = TRUE]
  /\ UNCHANGED <<sockets, activeConnections, online, conversationRooms, tasks, wanted,
                 delivered, messages, outbox, feed, now>>
  /\ UNCHANGED <<impl, calls, coins, videoCallRooms, callSeq, ioRooms, timers, reqs, emitted, last>>

\* A reconnect timer runs: await this.connect().
ReconnectTimer(k) ==
  /\ k \in 1..maxReconnectAttempts
  /\ client.pending[k] > 0
  /\ InFlight < MaxInFlight
  /\ client' = [client EXCEPT !.pending[k] = @ - 1, !.byTimer = @ + 1, !.socket = SET]
  /\ UNCHANGED <<sockets, activeConnections, online, conversationRooms, tasks, wanted,
                 delivered, messages, outbox, feed, now>>
  /\ UNCHANGED <<impl, calls, coins, videoCallRooms, callSeq, ioRooms, timers, reqs, emitted, last>>

ClientNext ==
  \/ AppConnect
  \/ \E by \in {"byApp", "byTimer", "retrying"} : ClientConnected(by)
  \/ \E by \in {"byApp", "byTimer", "retrying"}, retried \in BOOLEAN :
       ClientConnectError(by, retried)
  \/ \E by \in {"byApp", "byTimer", "rejecting"} : ClientConnectTimeout(by)
  \/ ClientServerDisconnect
  \/ ClientTransportClose
  \/ \E closing \in {"none", "byApp", "byTimer", "retrying"} : ClientDisconnect(closing)
  \/ \E k \in 1..maxReconnectAttempts : ReconnectTimer(k)

ClientSpec == SessionInit /\ [][ClientNext]_vars

\* The client while the application neither disconnects nor loses the
\* transport.  The callbacks the client hands to setTimeout run: a reconnect
\* timer that is armed, and the timeout of a connect() that stays pending.
\* What the network and the application do is not promised.
ClientRetryNext ==
  \/ AppConnect
  \/ \E by \in {"byApp", "byTimer", "retrying"} : ClientConnected(by)
  \/ \E by \in {"byApp", "byTimer", "retrying"}, retried \in BOOLEAN :
       ClientConnectError(by, retried)
  \/ \E by \in {"byApp", "byTimer"} : ClientConnectTimeout(by)
  \/ ClientServerDisconnect
  \/ \E k \in 1..maxReconnectAttempts : ReconnectTimer(k)

ClientLive ==
  /\ SessionInit
  /\ [][ClientRetryNext]_vars
  /\ WF_vars(\E k \in 1..maxReconnectAttempts : ReconnectTimer(k))
  /\ WF_vars(\E by \in {"byApp", "byTimer"} : ClientConnectTimeout(by))

\* Connections and calls together: a user with a call in progress drops off.

CallSessionNext ==
  \/ \E u \in CallSessionUsers : Connection(u)
  \/ \E s \in 1..MaxSockets : ConnectionReady(s)
  \/ \E s \in 1..MaxSockets : CloseUnready(s)
  \/ \E s \in 1..MaxSockets : Disconnect(s)
  \/ \E s \in 1..MaxSockets : DisconnectCleanup(s)
  \/ \E s \in 1..MaxSockets, q \in SessionCalls : CallUserOn(s, q[1], q[2])
  \/ \E s \in 1..MaxSockets, c \in 1..MaxCalls : AnswerCallOn(s, c)
  \/ \E r \in 1..MaxReq, q \in SessionInitiates : InitiateCheck(r, q[1], q[2], q[3])
  \/ \E r \in 1..MaxReq : InitiateInsert(r)
  \/ \E r \in 1..MaxReq, c \in 1..MaxCalls, u \in CallSessionUsers : AnswerSelect(r, c, u)
  \/ \E r \in 1..MaxReq : AnswerUpdate(r)

CallSessionSpec == SessionInit /\ [][CallSessionNext]_vars

\* The step completes the disconnect handler of socket s.
DisconnectDone(s) == IF impl = "socket" THEN DisconnectCleanup(s) ELSE Disconnect(s)

\* The user of socket s has no other connection.
OnlySession(s) == \A t \in Connected \ {s} : UserOf(t) # UserOf(s)

\* User v holds call_ended for call c: through the room user_<v> of the REST
\* routes, or on one of v's sockets.
CallEndedReceived(c, v) ==
  IF impl = "rest"
  THEN Ev("call_ended", v, c) \in emitted
  ELSE \E t \in SocketIds : UserOf(t) = v /\ <<"call_ended", t, NoConv, c>> \in delivered

\* ============================================================== claims ====

\* C1: when the recipient's answer and the 30 s timeout of a ringing call
\* run concurrently, exactly one takes effect: no call has both been
\* announced as answered (call_answered) and as timed out.
C1_ExactlyOneWins ==
  \A c \in Created : ~(Sent("call_answered", c) /\ TimeoutSent(c))

\* C2: every user is a party to at most one ringing or connected call.
C2_OneActiveCallPerUser ==
  \A u \in Users : Cardinality(ActiveCallsOf(u)) <= 1

\* C3: an initiate naming a user who is a party to a ringing or connected
\* call is rejected as already-in-call: it creates no call, and
\* incoming_call is emitted only together with the creation of a call; and
\* an initiate is rejected as already-in-call (409) only while an active
\* call exists.
C3_BusyInitiateRejected ==
  [][/\ Len(calls') = Len(calls) + 1 =>
          LET n == calls'[Len(calls')] IN
            ActiveCallsOf(n.caller_id) \cup ActiveCallsOf(n.recipient_id) = {}
     /\ callSeq' = callSeq + 1 =>
          LET n == videoCallRooms'[callSeq'] IN
            ActiveCallsOf(n.callerId) \cup ActiveCallsOf(n.recipientId) = {}
     /\ (\E e \in emitted' \ emitted : e[1] = "incoming_call") =>
          Len(calls') = Len(calls) + 1 \/ callSeq' = callSeq + 1
     /\ (last'.op = "initiate" /\ last'.code = 409) =>
          \E c \in CallIds : calls[c].status \in Active]_vars

\* C4: terminal statuses are absorbing: once a call is declined, missed or
\* ended (or, in the socket handler, deleted), no later step changes its
\* status.
C4_TerminalAbsorbing ==
  [][\A c \in Created : IsTerminal(c) => StatusOf(c)' = StatusOf(c)]_vars

C6_LateTimerIgnored ==
  [][\A c \in Created : (TimerRuns(c) /\ ~IsRinging(c)) =>
        /\ calls' = calls
        /\ videoCallRooms' = videoCallRooms
        /\ coins' = coins
        /\ emitted' = emitted
        /\ last' = Outcome("timeout", c, 0)]_vars

\* C6 witness: the timer of a connected call has just run and was ignored.
C6_Witness ==
  \E c \in CallIds :
    /\ last = Outcome("timeout", c, 0)
    /\ calls[c].status = "connected"
    /\ ~TimeoutSent(c)
\* C7: answer connects a call only when the declared recipient invokes it
\* while the call is ringing; an answer by anyone else, or on a call that
\* is not ringing, is turned down and leaves the call unchanged.
C7_AnswerGuarded ==
  [][\A c \in 1..MaxCalls :
       /\ Accepted("answer", c) => IsRinging(c) /\ StatusOf(c)' = "connected"
       /\ \A u \in Users :
            (/\ (\E r \in 1..MaxReq : AnswerSelect(r, c, u)) \/ AnswerCall(c, u)
             /\ ~(IsRinging(c) /\ u = RecipientOf(c)))
            => TurnedDown("answer", c) /\ UNCHANGED stores]_vars

\* C8: decline moves a call from ringing to declined and notifies the
\* caller with call_declined only when the declared recipient invokes it
\* while the call is ringing; any other decline changes nothing.
C8_DeclineGuarded ==
  [][\A c \in 1..MaxCalls :
       /\ Accepted("decline", c) =>
            /\ IsRinging(c)
            /\ StatusOf(c)' \in {"declined", "deleted"}
            /\ Ev("call_declined", CallerOf(c), c) \in emitted'
       /\ \A u \in Users :
            (/\ Decline(c, u) \/ DeclineCall(c, u)
             /\ ~(IsRinging(c) /\ u = RecipientOf(c)))
            => TurnedDown("decline", c) /\ UNCHANGED stores]_vars

\* C9: whenever a party ends a call that is ringing or connected, the call
\* becomes ended and the other party receives call_ended for that callId.
C9_EndNotifiesOtherParty ==
  [][\A c \in 1..MaxCalls, u \in Users :
       (/\ End(c, u) \/ EndCall(c, u)
        /\ IsActive(c)
        /\ u \in {CallerOf(c), RecipientOf(c)})
       => /\ StatusOf(c)' \in {"ended", "deleted"}
          /\ Ev("call_ended", OtherParty(c, u), c) \in emitted']_vars

\* C10 (as stated): ending a call that is already terminal changes nothing,
\* emits nothing and is not reported as an error.
C10_EndTerminalNoError ==
  [][\A c \in 1..MaxCalls :
       (last'.op = "end" /\ last'.callId = c /\ IsTerminal(c)) =>
          /\ UNCHANGED stores
          /\ last'.code \notin 400..599]_vars

\* C10 (amended): ending a call that is already terminal changes neither
\* the call record nor the balances and emits no event; the socket handler
\* ignores it silently and the REST route answers 404.
C10_EndTerminalNoEffect ==
  [][\A c \in 1..MaxCalls :
       (last'.op = "end" /\ last'.callId = c /\ IsTerminal(c)) =>
          /\ UNCHANGED stores
          /\ last'.code = IF impl = "rest" THEN 404 ELSE 0]_vars

\* C10 witness: an end request for a call that had already ended has just
\* been answered 404.
C10_Witness ==
  \E c \in CallIds :
    /\ last = Outcome("end", c, 404)
    /\ calls[c].status = "ended"
    /\ \E u \in Users : Ev("call_ended", u, c) \in emitted

\* C11: when the disconnect handler of a user's only session completes,
\* every ringing or connected call the user was a party to is terminal and
\* the other party, if connected, has received call_ended for it.
C11_DisconnectEndsCalls ==
  [][\A s \in SocketIds :
       (DisconnectDone(s) /\ OnlySession(s)) =>
         \A c \in ActiveCallsOf(UserOf(s)), v \in Users :
           v = OtherParty(c, UserOf(s)) =>
             /\ IsTerminal(c)'
             /\ UserRoom(v) # {} => CallEndedReceived(c, v)']_vars

\* C12: when the disconnect handler of a user's only session completes, the
\* user is in no room: none of the user's sockets is in a conversation
\* room, the user appears in no entry of conversationRooms, and no entry
\* of conversationRooms is left empty.
C12_DisconnectLeavesRooms ==
  [][\A s \in SocketIds :
       (DisconnectDone(s) /\ OnlySession(s)) =>
         /\ \A conv \in ConversationIds : \A t \in ConversationRoom(conv)' : UserOf(t) # UserOf(s)
         /\ \A conv \in DOMAIN conversationRooms' :
              /\ UserOf(s) \notin conversationRooms'[conv]
              /\ conversationRooms'[conv] # {}]_vars

\* C13: the disconnect handler of a user's only session removes the user's
\* presence record in its first step, with no delay, and a record that is
\* absent comes back only through a new connection of that user: so once
\* the handler has completed, and the user has not connected again, the
\* presence store holds no record for the user.
C13_PresenceRemovedAtOnce ==
  [][/\ \A s \in SocketIds :
          (Disconnect(s) /\ OnlySession(s)) => UserOf(s) \notin DOMAIN online'
     /\ \A u \in Users :
          (u \notin DOMAIN online /\ u \in DOMAIN online') => Connection(u)]_vars

\* C13 witness: the disconnect handler of a user's only session has
\* completed; the user has no presence record while another user, still
\* connected, has one.
C13_Witness ==
  \E s \in SocketIds :
    /\ sockets[s].state = "closed"
    /\ OnlySession(s)
    /\ UserOf(s) \notin DOMAIN online
    /\ \E t \in Connected : UserOf(t) \in DOMAIN online

\* C14: while a user has a live connection the user stays in the
\* connection registry and keeps the presence record: no step removes
\* either for a user who still has a connected socket after the step (as
\* when one of two sessions, or the old session after a reconnect,
\* disconnects).
C14_LiveSessionKeepsRegistration ==
  [][\A u \in Users :
       (\E t \in Connected' : sockets'[t].userId = u) =>
         /\ u \in DOMAIN activeConnections => u \in DOMAIN activeConnections'
         /\ u \in DOMAIN online => u \in DOMAIN online']_vars

\* The user of socket s is a participant of an existing conversation.
Authorized(s, conv) == conv \in ConversationIds /\ UserOf(s) \in Conversations[conv]

\* C19: a join by a user who is not a participant, or for a conversation
\* that does not exist, mutates nothing: neither the request nor its
\* rejection changes any socket's rooms, the registry's room sets or
\* conversationRooms, no user_joined_conversation is delivered, and the
\* only event is an error to the requesting socket.
C19_UnauthorizedJoinRejected ==
  [][\A s \in SocketIds, conv \in JoinRequests :
       ~Authorized(s, conv) =>
         /\ JoinConversation(s, conv) =>
              /\ UNCHANGED <<sockets, activeConnections, conversationRooms>>
              /\ delivered' = {}
         /\ JoinConversationDone(s, conv) =>
              /\ UNCHANGED <<sockets, activeConnections, conversationRooms>>
              /\ delivered' = Deliver("error", {s} \cap Connected, conv, NoCall)]_vars

\* C19 witness: a non-participant's join of a conversation that another
\* socket is joined to has just been rejected with an error to the
\* requester alone.
C19_Witness ==
  \E s \in SocketIds, t \in SocketIds :
    /\ s # t
    /\ UserOf(s) \notin Conversations["c1"]
    /\ delivered = {<<"error", s, "c1", NoCall>>}
    /\ "c1" \in sockets[t].rooms
    /\ "c1" \notin sockets[s].rooms

\* Socket s is a member of the conversation in every respect (the
\* socket.io room and, in backend/utils/socketHandler.js, the two maps),
\* or in some respect.
MemberFully(s, conv) ==
  /\ conv \in sockets[s].rooms
  /\ impl = "rest" =>
       /\ conv \in DOMAIN conversationRooms
       /\ UserOf(s) \in conversationRooms[conv]
       /\ UserOf(s) \in DOMAIN activeConnections
       /\ conv \in activeConnections[UserOf(s)].rooms
MemberAtAll(s, conv) ==
  \/ conv \in sockets[s].rooms
  \/ /\ impl = "rest"
     /\ \/ conv \in DOMAIN conversationRooms /\ UserOf(s) \in conversationRooms[conv]
        \/ UserOf(s) \in DOMAIN activeConnections
           /\ conv \in activeConnections[UserOf(s)].rooms

\* C20: once the join and leave events a connected user has sent for a
\* conversation the user is a participant of have all been handled, the
\* user (with a single connection) is a member exactly when the last of
\* them was a join.
C20_MembershipIsNetEffect ==
  \A s \in SocketIds, conv \in ConversationIds :
    (/\ sockets[s].state = "ready"
     /\ \A t \in SocketIds \ {s} : UserOf(t) # UserOf(s)
     /\ Authorized(s, conv)
     /\ Task("join", s, conv, 0) \notin tasks)
    => IF <<s, conv>> \in wanted THEN MemberFully(s, conv) ELSE ~MemberAtAll(s, conv)

\* The sockets a message came from: the socket that sent send_message, or
\* the sockets of the user who posted it over HTTP.
Own(m) ==
  IF outbox[m].socket = Http
  THEN {t \in SocketIds : UserOf(t) = outbox[m].user}
  ELSE {outbox[m].socket}

\* new_message for message m has reached some socket.
Fanned(m) == \E t \in SocketIds : \E i \in 1..Len(feed[t]) : feed[t][i] = m

\* A handler invocation for message m is still under way.
Handling(m) == \E task \in tasks : task.msg = m

\* The sender of message m has just been told that the send failed: a 500
\* for a post, an error event for send_message (if the socket is still there).
ToldFailed(m) ==
  IF outbox[m].socket = Http
  THEN last = Outcome("post", m, 500)
  ELSE outbox[m].socket \in Connected =>
         <<"error", outbox[m].socket, outbox[m].conv, NoCall>> \in delivered

\* C15: no socket receives new_message for a message that it sent itself
\* (for a message posted over HTTP: that its own user posted).
C15_SenderNotEchoed ==
  \A t \in SocketIds : \A i \in 1..Len(feed[t]) : t \notin Own(feed[t][i])

\* C16: when new_message for a message of room R is emitted, it reaches
\* every ready socket in R other than the sender's, among them every socket
\* whose join of R was granted and not followed by a leave; and every socket
\* it reaches is connected, in R, and belongs to a participant of R.
C16_FanoutIsRoomMembers ==
  [][\A m \in 1..Len(outbox) :
       (MessageEmit(m) \/ (PostInsert(m) /\ last' = Outcome("post", m, 201))) =>
         LET R == outbox[m].conv
             got == {t \in SocketIds : feed'[t] = Append(feed[t], m)}
         IN  /\ \A t \in SocketIds \ got : feed'[t] = feed[t]
             /\ \A t \in got :
                  /\ t \in Connected
                  /\ R \in sockets[t].rooms
                  /\ Authorized(t, R)
             /\ \A t \in SocketIds \ Own(m) :
                  (sockets[t].state = "ready" /\ R \in sockets[t].rooms) => t \in got
             /\ \A t \in SocketIds \ Own(m) :
                  (/\ sockets[t].state = "ready"
                   /\ <<t, R>> \in wanted
                   /\ Task("join", t, R, 0) \notin tasks) => t \in got]_vars

\* A's message has reached B's socket, while C's socket, connected and
\* outside the room, and B's feed hold nothing else.
C16_Witness ==
  \E m \in 1..Len(outbox) :
    /\ outbox[m].user = "A"
    /\ feed[2] = <<m>>
    /\ sockets[3].state = "ready"
    /\ "c1" \notin sockets[3].rooms
    /\ feed[3] = <<>>

\* C17: when the handling of a message ends without the message having been
\* persisted, new_message for it has reached nobody and the sender has been
\* told that the send failed; and send_message emits new_message only for a
\* message that is persisted.
C17_NoFanoutWithoutPersistence ==
  [][\A m \in 1..Len(outbox) :
       /\ MessageEmit(m) => m \in messages
       /\ (Handling(m) /\ ~Handling(m)' /\ m \notin messages') =>
            /\ ~Fanned(m)'
            /\ ToldFailed(m)']_vars

\* C18: in the feed of every recipient, two messages that one socket sent
\* with send_message to the same room stand in the order in which they were
\* sent.
C18_SenderOrderKept ==
  \A t \in SocketIds : \A i, j \in 1..Len(feed[t]) :
    (/\ i < j
     /\ t \notin Own(feed[t][i])
     /\ outbox[feed[t][i]].socket # Http
     /\ outbox[feed[t][i]].socket = outbox[feed[t][j]].socket
     /\ outbox[feed[t][i]].conv = outbox[feed[t][j]].conv) => feed[t][i] < feed[t][j]

\* The socket has joined the conversation and has not left it since.
JoinedRoom(s, conv) == conv \in sockets[s].rooms /\ <<s, conv>> \in wanted

\* C21: a socket that has joined a room and not left it can send to it,
\* whatever else it has joined or left meanwhile: its send_message for the
\* room is accepted and its typing event reaches the room's other members.
C21_SeveralRoomsAtOnce ==
  [][\A s \in SocketIds, conv \in ConversationIds :
       JoinedRoom(s, conv) =>
         /\ SendMessage(s, conv) => (delivered' = {} /\ Len(outbox') = Len(outbox) + 1)
         /\ TypingStart(s, conv) =>
              delivered' = Deliver("user_typing", ConversationRoom(conv) \ {s}, conv, NoCall)]_vars

\* C22: user_typing for a room is emitted only for a sender that has joined
\* the room, and it reaches only other sockets that are in the room.
C22_TypingMembersOnly ==
  [][\A s \in SocketIds, conv \in ConversationIds :
       (TypingStart(s, conv) /\ delivered' # {}) =>
         /\ conv \in sockets[s].rooms
         /\ \A e \in delivered' :
              /\ e[1] = "user_typing"
              /\ e[2] # s
              /\ conv \in sockets[e[2]].rooms]_vars

\* A signaling payload that names call c has been relayed to some socket.
Relayed(c) == \E e \in delivered : e[1] \in Signals /\ e[4] = c

\* The user is the caller or the recipient of call c, which exists.
PartyOf(u, c) ==
  /\ c \in Created
  /\ StatusOf(c) # "deleted"
  /\ u \in {CallerOf(c), RecipientOf(c)}

\* Call c is in a state that admits the payload: connected, or for an offer
\* still ringing.
Admits(ev, c) ==
  /\ c \in Created
  /\ \/ StatusOf(c) = "connected"
     \/ ev \in {"call_offer", "webrtc_offer"} /\ StatusOf(c) = "ringing"

\* Socket s sends signaling event ev that names call c (and user u, where
\* the event carries a target).
SignalOn(ev, s, c, u) ==
  \/ ev = "call_offer" /\ CallOffer(s, c, u)
  \/ CallRelay(ev, s, c, u)
  \/ Webrtc(ev, s, c)

\* C23: a signaling payload that names call c is relayed only if its sender
\* is the caller or the recipient of c and c is in a state that admits it.
C23_SignalingGuarded ==
  [][\A c \in 1..MaxCalls, ev \in Signals, u \in Users :
       /\ \A s \in SocketIds :
            (SignalOn(ev, s, c, u) /\ Relayed(c)') =>
              (PartyOf(UserOf(s), c) /\ Admits(ev, c))
       /\ (PostSignal(ev, u, c) /\ Relayed(c)') => (PartyOf(u, c) /\ Admits(ev, c))]_vars

\* C24: a signaling payload that a party of call c sends is delivered to
\* sockets of the other party of c only, whichever user the event names.
C24_SignalingToCounterpartOnly ==
  [][\A c \in 1..MaxCalls, ev \in Signals, u \in Users :
       /\ \A s \in SocketIds :
            (SignalOn(ev, s, c, u) /\ PartyOf(UserOf(s), c)) =>
              \A e \in delivered' :
                e[1] \in Signals => UserOf(e[2]) = OtherParty(c, UserOf(s))
       /\ (PostSignal(ev, u, c) /\ PartyOf(u, c)) =>
            \A e \in delivered' : e[1] \in Signals => UserOf(e[2]) = OtherParty(c, u)]_vars

\* The token is missing, invalid, expired, or names no user of `users`.
BadToken(token) ==
  \/ ~token.present
  \/ ~token.signed
  \/ token.expired
  \/ token.userId \notin Users

\* C25: a handshake with a missing, invalid or expired token, or with one
\* that names an unknown user, adds no socket, no registry entry and no
\* presence record, joins no room and delivers no event; and every socket,
\* registry entry and presence record belongs to a known user.
C25_RefusedBeforeRegistration ==
  [][/\ \A token \in Tokens :
          (Handshake(token) /\ BadToken(token)) =>
            /\ UNCHANGED <<sockets, activeConnections, online, conversationRooms>>
            /\ delivered' = {}
     /\ \A s \in 1..Len(sockets') : sockets'[s].userId \in Users
     /\ DOMAIN activeConnections' \subseteq Users
     /\ DOMAIN online' \subseteq Users]_vars

\* A handshake has just been refused while one user is connected and
\* registered.
C25_Witness ==
  /\ last = Outcome("connect_error", 0, 0)
  /\ delivered = {}
  /\ Len(sockets) = 1
  /\ DOMAIN activeConnections = {UserOf(1)}
  /\ DOMAIN online = {UserOf(1)}

\* C26: when the connection callback of a socket of user U announces
\* user_online, the ready sockets of other users that receive it are exactly
\* those of the users with a mutual match with U.
C26_OnlineToMatchesOnly ==
  [][\A s \in SocketIds :
       ConnectionReady(s) =>
         \A t \in SocketIds \ {s} :
           (sockets[t].state = "ready" /\ UserOf(t) # UserOf(s)) =>
             (<<"user_online", t, UserOf(s), NoCall>> \in delivered'
                <=> UserOf(t) \in Matched(UserOf(s)))]_vars

\* C27: the presence record of a user whose registered socket is connected
\* and has sent an event within the last five minutes is in the store.
C27_PresenceNeverLapses ==
  \A s \in SocketIds :
    (/\ sockets[s].state = "ready"
     /\ UserOf(s) \in DOMAIN activeConnections
     /\ activeConnections[UserOf(s)].socketId = s
     /\ (now - sockets[s].lastEvent) * SweepEveryMs <= StaleAfterMs) =>
      UserOf(s) \in DOMAIN online

\* The users whose registry entry the step removes.
Evicted == (DOMAIN activeConnections) \ (DOMAIN activeConnections')

\* C28: the sweep removes the registry entry of a user only if the user's
\* registered socket has sent no event for more than five minutes.
C28_SweepEvictsIdleOnly ==
  [][Sweep =>
       \A u \in Evicted :
         (now - sockets[activeConnections[u].socketId].lastEvent) * SweepEveryMs
           > StaleAfterMs]_vars

\* C29: after the sweep has removed the registry entry of a user, the user
\* has no presence record, the user's sockets are in no room, and every
\* ringing or connected call of the user is terminal with call_ended
\* delivered to the other party's sockets.
C29_EvictionIsDisconnect ==
  [][Sweep =>
       \A u \in Evicted :
         /\ u \notin DOMAIN online'
         /\ \A s \in SocketIds :
              UserOf(s) = u => (sockets'[s].rooms = {} /\ sockets'[s].callRooms = {})
         /\ \A c \in ActiveCallsOf(u), v \in Users :
              v = OtherParty(c, u) =>
                /\ IsTerminal(c)'
                /\ UserRoom(v) # {} => CallEndedReceived(c, v)']_vars

\* C30: the client's reconnection backs off exponentially under a cap:
\* reconnectAttempts never exceeds maxReconnectAttempts, the k-th timer armed
\* since the client last connected waits reconnectDelay * 2^(k-1) ms, a step
\* in which the client becomes connected leaves the counter at 0, and at the
\* cap no step arms a further timer.
C30_ReconnectBackoffCapped ==
  [][/\ client'.reconnectAttempts <= maxReconnectAttempts
     /\ Len(client'.schedule) = client'.reconnectAttempts
     /\ \A k \in 1..Len(client'.schedule) :
          client'.schedule[k] = reconnectDelay * 2^(k - 1)
     /\ (~client.isConnected /\ client'.isConnected) => client'.reconnectAttempts = 0
     /\ client.reconnectAttempts = maxReconnectAttempts =>
          /\ Armed(client') <= Armed(client)
          /\ client'.schedule \in {client.schedule, <<>>}]_vars

\* The cap is reached after five timers, the last one armed for 16 s and
\* still to run, with the client having been connected before.
C30_Witness ==
  /\ client.reconnectAttempts = maxReconnectAttempts
  /\ Len(client.schedule) = maxReconnectAttempts
  /\ client.schedule[maxReconnectAttempts] = reconnectDelay * 2^(maxReconnectAttempts - 1)
  /\ client.pending[maxReconnectAttempts] > 0

\* The events the listeners also get when a connection drops for a while or
\* one attempt to connect fails.
Transient == {"connection_status", "connection_error"}

\* C31: once reconnect() has given up at the cap, with no timer armed and
\* no connect() pending any more, the registered listeners eventually get an
\* event that an ordinary transient disconnect or failed attempt does not
\* give them.
C31_ExhaustionSurfaced ==
  (/\ client.gaveUp
   /\ client.listening
   /\ \A k \in 1..maxReconnectAttempts : client.pending[k] = 0
   /\ InFlight = 0) ~>
    (client.heard \notin Transient \cup {"none"})

\* C34: one failed connection attempt raises reconnectAttempts by at most one
\* and arms at most one timer.
C34_OneTimerPerFailure ==
  [][(\E by \in {"byApp", "byTimer", "retrying"}, retried \in BOOLEAN :
        ClientConnectError(by, retried))
     => /\ client'.reconnectAttempts <= client.reconnectAttempts + 1
        /\ Armed(client') <= Armed(client) + 1]_vars

\* C35: while disconnect() is the application's last call, the client has
\* no socket and is not connected.
C35_DisconnectStopsReconnect ==
  client.stopped => client.socket = NULL /\ ~client.isConnected

\* C32: a call that was ended while ringing has no non-zero duration, neither
\* in its row nor in what End reported to the parties.
C32_NoDurationUnlessAnswered ==
  \A c \in CallIds :
    (impl = "rest" /\ calls[c].status = "ended" /\ calls[c].answered_at = NULL)
      => calls[c].duration \in {NoDuration, 0} /\ calls[c].told = 0

\* C33: when an answered call is ended, the duration End reports is the
\* number of seconds from the call's answer to the end.
C33_DurationSinceAnswer ==
  [][\A c \in CallIds :
       (/\ impl = "rest"
        /\ calls[c].status \in Active
        /\ calls[c].answered_at # NULL
        /\ calls'[c].status = "ended")
         => calls'[c].told = now - calls[c].connected_sec]_vars

\* C36: a call is charged at most once, and only when it has been answered.
C36_ChargedOnceWhenAnswered ==
  \A c \in CallIds :
    impl = "rest" =>
      /\ calls[c].charges <= 1
      /\ calls[c].charges > 0 => calls[c].answered_at # NULL

\* C37: no user's coin balance is negative, whatever the caller spends
\* between initiate and answer; stated for the behaviours in which no call
\* has been charged twice.
C37_BalanceNeverNegative ==
  (\A c \in CallIds : calls[c].charges <= 1) => \A u \in Users : coins[u] >= 0

\* C38: in backend/utils/socketHandler.js the room set of a user's registry
\* entry and the member map of the rooms agree: conversation conv is in
\* activeConnections[u].rooms exactly when u is in conversationRooms[conv].
C38_RoomMapsAgree ==
  impl = "rest" =>
    \A u \in Users, conv \in ConversationIds :
      (u \in DOMAIN activeConnections /\ conv \in activeConnections[u].rooms)
        <=> (conv \in DOMAIN conversationRooms /\ u \in conversationRooms[conv])

\* The incoming_call events a step sends: <<event, receiver, callId, reason>>.
Rung == {e \in emitted' \ emitted : e[1] = "incoming_call"}

\* C39: a call_user of a participant of conversation q[3] rings only the
\* other participant of that conversation, and a POST /initiate never rings
\* the caller.
C39_RingsCounterpartOnly ==
  [][/\ \A q \in RingRequests :
          CallUser(q[1], q[2], q[3]) =>
            \A e \in Rung : e[2] # q[1] /\ e[2] \in Conversations[q[3]]
     /\ \A r \in 1..MaxReq :
          InitiateInsert(r) => \A e \in Rung : e[2] # reqs[r].user]_vars

\* C40: a WebRTC answer posted to /:callId/answer by the recipient of a
\* connected call is acknowledged as sent and reaches the caller as
\* webrtc_answer.
C40_WebrtcAnswerRelayed ==
  [][\A r \in 1..MaxReq, c \in CallIds :
       (calls[c].status = "connected" /\ AnswerSelect(r, c, calls[c].recipient_id))
         => /\ last' = Outcome("webrtc_answer", c, 200)
            /\ \E s \in UserRoom(calls[c].caller_id) :
                 <<"webrtc_answer", s, calls[c].recipient_id, c>> \in delivered']_vars

================================================================
